---- MODULE Spec2Model ----
(***************************************************************************)
(* Credential lifecycle and synchronisation engine of Aegis:               *)
(*   app/strava.py, app/ticktick.py  (token store, refresh, fetch)         *)
(*   app/db.py                       (transaction scope)                   *)
(*   sync_all.py                     (sync_strava, sync_ticktick, main)    *)
(*   app/main.py                     (/sync handlers)                      *)
(*                                                                         *)
(* The oauth_tokens table is `store`, one row per provider.  One handler   *)
(* is in flight at a time: a sync run (`run`), or between runs one of the  *)
(* operator's reset / code-exchange handlers of the UI.  The clock moves   *)
(* at any time.                                                            *)
(*                                                                         *)
(* Every statement of strava.py names provider='strava' and every one of   *)
(* ticktick.py provider='ticktick': the two credentials never meet.  A     *)
(* behaviour therefore exercises the providers in `scope`, chosen at the   *)
(* start, and leaves the rows of the others untouched.                     *)
(*                                                                         *)
(* The specifications share the variables:                                 *)
(*   Spec      credentials and sync runs of one provider, records counted  *)
(*   RecSpec   the records fetched and the rows of strava_activities /     *)
(*             ticktick_tasks (`tbl`, `rec`)                               *)
(*   MainSpec  one invocation of sync_all.main over both providers (`mn`)  *)
(*   AppSpec   the start of a process (`boot`) and the API server's         *)
(*             periodic and manual Strava syncs, which overlap (`web`)     *)
(*   BatchSpec   one upsert of a list of records with timestamp fields      *)
(*   ResumeSpec  a sync of sync_all.py that may stop early, and the sync    *)
(*               of the same provider data that follows it (`job`)          *)
(*                                                                         *)
(* The client id and secret of a provider are set, and a read of the       *)
(* credential row succeeds; a write inside db() commits or raises, a       *)
(* token or resource request is answered or fails.                         *)
(***************************************************************************)
EXTENDS Integers, Sequences, FiniteSets, TLC

VARIABLES store, env, now, run, scope, tbl, rec, mn, boot, web, job

vars == <<store, env, now, run, scope, tbl, rec, mn, boot, web, job>>

----------------------------------------------------------------------------
(* Bounds of the model                                                     *)

\* the clock runs over 0..MaxTime
MaxTime == 2
\* a refresh answer carries expires_in in 0..MaxLife (TickTick) or an
\* absolute expires_at up to now + MaxLife (Strava)
MaxLife == 1
\* activity pages of one Strava fetch that may be non-empty
MaxPages == 2
\* projects of one TickTick sync
MaxProjects == 2
\* records in one non-empty activity page or one project's task list
MaxBatch == 1
\* records in the task list one get_project_tasks call returns
MaxTasks == 2
\* records in the list one upsert call of BatchSpec is given
MaxRecords == 3
\* STRAVA_SYNC_INTERVAL_MINUTES is one of 0..MaxInterval
MaxInterval == 1
\* minutes one periodic run may last, and periodic runs of one process
MaxRunTime == 2
MaxRuns == 2

----------------------------------------------------------------------------
(* Values                                                                  *)

Providers == {"strava", "ticktick"}

\* SQL null / Python None for a text value
Null == "null"
\* SQL null / Python None for a timestamp or a number of seconds
NullTime == -1

\* refresh tokens the provider issues or the operator pastes in
RTokens == {"r1", "r2"}
\* the refresh token of STRAVA_REFRESH_TOKEN / TICKTICK_REFRESH_TOKEN
EnvRToken == "r0"
\* access tokens the provider issues
ATokens == {"a1", "a2"}
\* the access token of TICKTICK_ACCESS_TOKEN
EnvAToken == "a0"

\* no row for the provider in oauth_tokens
NoRow == [present |-> FALSE, rt |-> Null, at |-> Null, exp |-> NullTime]

Row(rt, at, exp) == [present |-> TRUE, rt |-> rt, at |-> at, exp |-> exp]

\* Python truthiness of an optional text value (None is falsy)
Truthy(v) == v # Null

\* a JSON answer without any field, before a token request is answered
NoPayload == [rt |-> Null, at |-> Null, exp |-> NullTime]

----------------------------------------------------------------------------
(* Environment of the process (os.getenv), fixed for a behaviour            *)

\* rt: STRAVA_REFRESH_TOKEN / TICKTICK_REFRESH_TOKEN (optional fallbacks),
\* at: TICKTICK_ACCESS_TOKEN (optional fallback).  The client id and secret
\* of both providers are configuration the process is started with.
Envs ==
    [rt : [Providers -> {Null, EnvRToken}],
     at : {Null, EnvAToken}]

----------------------------------------------------------------------------
(* The credential store: pure readers and writers of one oauth_tokens row   *)

\* select refresh_token from oauth_tokens where provider=...; no row -> None
get_refresh_token(row) == IF row.present THEN row.rt ELSE Null

\* select access_token, access_expires_at ...; no row -> (None, None)
get_stored_access_token(row) ==
    IF row.present THEN <<row.at, row.exp>> ELSE <<Null, NullTime>>

\* strava.save_refresh_token: expires_at is an absolute epoch, a falsy one
\* (None or 0) gives a null timestamp; the upsert sets every column from the
\* values supplied
save_refresh_token(old, refresh_token, access_token, expires_at_epoch) ==
    LET expires_ts == IF expires_at_epoch # NullTime /\ expires_at_epoch # 0
                      THEN expires_at_epoch ELSE NullTime
    IN  Row(refresh_token, access_token, expires_ts)

\* variant: an answer without expires_in is given a lifetime
save_tokens_AssumesLifetime(old, t, refresh_token, access_token, expires_in_secs) ==
    LET exp_ts == IF expires_in_secs # NullTime
                  THEN t + expires_in_secs ELSE t + MaxLife
    IN  Row(refresh_token, access_token, exp_ts)

\* ticktick.save_tokens: expires_in is relative to the clock at the write;
\* the upsert sets every column from the values supplied
save_tokens(old, t, refresh_token, access_token, expires_in_secs) ==
    LET exp_ts == IF expires_in_secs # NullTime
                  THEN t + expires_in_secs ELSE NullTime
    IN  Row(refresh_token, access_token, exp_ts)

\* strava.reset_refresh_token: on conflict only refresh_token is updated
strava_reset_refresh_token(old, new_refresh_token) ==
    IF Truthy(new_refresh_token)
    THEN IF old.present
         THEN [old EXCEPT !.rt = new_refresh_token]
         ELSE Row(new_refresh_token, Null, NullTime)
    ELSE NoRow

\* ticktick.reset_refresh_token: access token and expiry are nulled as well
ticktick_reset_refresh_token(old, new_refresh_token) ==
    IF Truthy(new_refresh_token)
    THEN Row(new_refresh_token, Null, NullTime)
    ELSE NoRow

\* rt = get_refresh_token() or os.getenv("..._REFRESH_TOKEN")
RefreshTokenToSend(p) ==
    IF Truthy(get_refresh_token(store[p]))
    THEN get_refresh_token(store[p]) ELSE env.rt[p]

\* variants of the cache test: the future expiry forgotten, the expiry not
\* looked at, a null expiry not trusted
CacheValid_NullExpiryOnly(at, exp, t) == Truthy(at) /\ exp = NullTime

CacheValid_IgnoresExpiry(at, exp, t) == Truthy(at)

CacheValid_Strict(at, exp, t) == Truthy(at) /\ exp # NullTime /\ exp > t

\* headers(): at and (exp is None or exp > now)
CacheValid(at, exp, t) == Truthy(at) /\ (exp = NullTime \/ exp > t)

----------------------------------------------------------------------------
(* The sync run in flight                                                  *)

\* Fields of `run`.
\*   p, pc        provider and position of the run
\*   req          the TickTick request headers() is building: "list" | "data"
\*   rt, pay      refresh token sent, and the token endpoint's JSON answer
\*   token, via   access token the acquisition returned and where it came
\*                from: "cache" | "refresh" | "env"
\*   status, errors, synced, projects   the result record of sync_all.py
\*   page, fetched, projLeft, tasks     loop state of the fetch
\* History of the current token acquisition, kept for the properties:
\*   seen, seenNow  the credential row and the clock when it was read
\*   posts          requests sent to the token endpoint
\*   answer         "none" | "ok" | "fail": how the token endpoint answered
\*   wrote          the row the acquisition committed (NoRow: none)
\*   noRT           no refresh token in the store nor in the environment
\*   raised         the acquisition raised to its caller
\* History of the run:
\*   resReqs        resource requests issued
\*   rfFail         the request for which the token endpoint first failed a
\*                  refresh: "none" | "activities" | "list" | "data"
\*   tokReqs        resource requests issued for the current acquisition
IdleRun ==
    [p |-> "none", pc |-> "idle", req |-> "none",
     rt |-> Null, pay |-> NoPayload, token |-> Null, via |-> "none",
     status |-> "success", errors |-> 0, synced |-> 0, projects |-> 0,
     page |-> 0, fetched |-> 0, projLeft |-> 0, tasks |-> 0,
     seen |-> NoRow, seenNow |-> NullTime, posts |-> 0, answer |-> "none",
     wrote |-> NoRow, noRT |-> FALSE, raised |-> FALSE,
     resReqs |-> 0, rfFail |-> "none", tokReqs |-> 0]

\* a token acquisition begins: its history starts empty
BeginAcquisition(r, pc, req) ==
    [r EXCEPT !.pc = pc, !.req = req,
              !.rt = Null, !.pay = NoPayload, !.token = Null, !.via = "none",
              !.seen = NoRow, !.seenNow = NullTime, !.posts = 0,
              !.answer = "none", !.wrote = NoRow, !.noRT = FALSE,
              !.raised = FALSE, !.tokReqs = 0, !.tasks = 0]

\* the request went out with the token: the acquisition's locals are dead
EndAcquisition(r) ==
    [r EXCEPT !.rt = Null, !.pay = NoPayload, !.via = "none",
              !.seen = NoRow, !.seenNow = NullTime, !.posts = 0,
              !.answer = "none", !.wrote = NoRow, !.noRT = FALSE]

\* the token endpoint rejected a refresh (or the request raised): the first
\* such failure of the run, by the request it was for
NoteRefreshFailure(r) ==
    [r EXCEPT !.rfFail = IF r.rfFail = "none" THEN r.req ELSE r.rfFail]

----------------------------------------------------------------------------
(* Records of the providers and rows of strava_activities / ticktick_tasks *)

\* primary keys the providers hand out
Ids == {"i1", "i2"}
\* a value of a plain column (strava name, ticktick title)
Names == {"x"}

\* a value of a JSON-valued key (strava start_latlng, ticktick reminders)
JsonValues == {"v"}
\* json.dumps(None) and json.dumps([]): JSON texts, not SQL null
JsonNull == "json null"
JsonEmptyList == "[]"

\* one element of a provider's JSON list; a key the record lacks reads as
\* None through r.get(...)
RawRecords == [id : Ids, name : {Null} \cup Names,
               json : {Null} \cup JsonValues]

\* json.dumps(v), the text bound to a jsonb column
dumps(v) == IF v = Null THEN JsonNull ELSE v

\* the jsonb column: strava json.dumps(r.get("start_latlng")),
\* ticktick json.dumps(t.get("reminders") or [])
JsonColumn(p, v) ==
    IF p = "strava"
    THEN dumps(v)
    ELSE dumps(IF Truthy(v) THEN v ELSE JsonEmptyList)

\* r.get(key): the value under the key, None when the record lacks it
get(r, key) == IF key \in DOMAIN r THEN r[key] ELSE Null

\* texts a provider may send as start_date (strava) or startDate, dueDate,
\* ... (ticktick): the empty text, a text that is no ISO-8601 date, and two
\* spellings of one instant
BadStamps == {"", "not a date"}
IsoStamps == {"2024-05-01T10:00:00Z", "2024-05-01T10:00:00+00:00"}
Timestamps == BadStamps \cup IsoStamps

\* variant: the text is bound to the column unparsed when isoparse rejects it
parse_dt_KeepsText(s) ==
    IF s = Null \/ s = "" THEN Null
    ELSE IF s \in IsoStamps THEN "datetime(2024, 5, 1, 10, 0, tzinfo=UTC)"
    ELSE s

\* _parse_dt / _parse_ts: None for a falsy value, du.isoparse(s) otherwise,
\* None when isoparse raises
parse_dt(s) ==
    IF s = Null \/ s = "" THEN Null
    ELSE IF s \in IsoStamps THEN "datetime(2024, 5, 1, 10, 0, tzinfo=UTC)"
    ELSE Null

\* all sequences over S of length lo..hi
SeqsBetween(S, lo, hi) == UNION {[1..m -> S] : m \in lo..hi}

\* a non-empty activities page
PageContents == SeqsBetween(RawRecords, 1, MaxBatch)
\* what get_project_tasks returns: a list, possibly empty
TaskLists == SeqsBetween(RawRecords, 0, MaxTasks)

\* the parameter dict of one insert: the columns read from the record, the
\* record itself as raw, and now() as last_synced_at
DeriveRow(p, r, t) ==
    [id |-> r.id, name |-> r.name, json |-> JsonColumn(p, r.json),
     start_date |-> parse_dt(get(r, "start_date")),
     raw |-> r, last_synced_at |-> t]

\* variant: a plain insert, no conflict clause
upsert_row_InsertOnly(table, row) ==
    table \cup {row}

\* variant: the update keeps a stored column when the incoming one is null
upsert_row_Coalesce(table, row) ==
    LET old == {x \in table : x.id = row.id}
    IN  (table \ old) \cup
        {[row EXCEPT !.name = IF row.name = Null /\ old # {}
                               THEN (CHOOSE x \in old : TRUE).name
                               ELSE row.name]}

\* variant: the conflict target is the name column
upsert_row_KeyedByName(table, row) ==
    {x \in table : x.name # row.name} \cup {row}

\* variant: on conflict (id) do nothing
upsert_row_KeepsStored(table, row) ==
    IF \E x \in table : x.id = row.id THEN table ELSE table \cup {row}

\* variant: the table is emptied before the row is written
upsert_row_ReplacesTable(table, row) ==
    {row}

\* insert ... on conflict (id) do update set <every column> = excluded.<it>,
\* last_synced_at = now()
upsert_row(table, row) ==
    {x \in table : x.id # row.id} \cup {row}

\* Fields of `rec`, the record-level sync in flight.
\*   p, pc            provider and position
\*   page_start, page, results   locals of fetch_all_activities
\*   rows, k          argument of upsert_*, and the record the loop is at
\*   tx, t0           the table as the open transaction sees it, and its now()
\*   ret              value upsert_* returned (NullTime: none)
\*   ok, raised       the handler returned / raised
\*   conn             the connection of db(): "none" | "open" | "closed"
\*   bodyOk           the body of the with-block finished without raising
\*   committed, rolledBack   conn.commit() returned / conn.rollback() ran
\* History, kept for the properties:
\*   reqs             page numbers requested, in order
\*   served           the non-empty pages answered, in order
\*   handed           pages whose records the caller of the fetch holds
\*   before           the table when upsert_* was called
\*   again            the call repeats the previous one with the same input
\*   failedAt         index of the record whose write failed (0: none)
IdleRec ==
    [p |-> "none", pc |-> "idle", page_start |-> 0, page |-> 0,
     results |-> <<>>, rows |-> <<>>, k |-> 0, tx |-> {}, t0 |-> NullTime,
     ret |-> NullTime, ok |-> FALSE, raised |-> FALSE,
     conn |-> "none", bodyOk |-> FALSE, committed |-> FALSE,
     rolledBack |-> FALSE,
     reqs |-> <<>>, served |-> <<>>, handed |-> 0, before |-> {},
     again |-> FALSE, failedAt |-> 0]


\* Fields of `job`, one sync_strava or sync_ticktick of sync_all.py with the
\* records it fetches and writes, and the sync that follows it.
\*   p, pc        provider and position
\*   i            page number (strava) or index of the project (ticktick)
\*   rows, k      argument of upsert_*, and the record its loop is at
\*   tx           the table as the open transaction sees it
\*   t            the time of the sync, now() of its transactions
\*   errors       len(results['errors'])
\*   cut          why the sync stopped early: "none" | "refresh" | "fetch" |
\*                "upsert" | "killed"
\* History, kept for the properties:
\*   phase        1: the first sync; 2: the sync after it (0: none)
\*   data         what the provider holds: the non-empty activity pages in
\*                order, or the task list of every project in list order
\*   start, mid   the table before the first sync and between the two
\*   first        how the first sync ended: "whole" | "partial" | its cut
IdleJob ==
    [p |-> "none", pc |-> "idle", i |-> 0, rows |-> <<>>, k |-> 0,
     tx |-> {}, t |-> NullTime, errors |-> 0, cut |-> "none",
     phase |-> 0, data |-> <<>>, start |-> {}, mid |-> {},
     first |-> "none"]

\* Fields of `mn`, one invocation of sync_all.main.
\*   pc        position in main
\*   skip      --skip-strava / --skip-ticktick
\*   res       all_results['strava'] / ['ticktick'] (NoResult: None)
\*   overall   all_results['overall_status'] ("none": not yet created)
\*   code      argument of sys.exit (NullTime: the process has not exited)
\*   atEnd     the exit is the one at the end of main
\* History of the invocation, kept for the properties:
\*   ffail     per provider, the first resource request of its sync that was
\*             answered with an error: "none" | "activities" | "list" | "data"
\*   last      the last resource request of the sync in flight: "none" |
\*             "activities" | "list" | "data"
\*   rested    time.sleep ran after that request
NoResult ==
    [present |-> FALSE, status |-> "none", errors |-> 0, synced |-> 0]

IdleMain ==
    [pc |-> "idle", skip |-> [p \in Providers |-> FALSE],
     res |-> [p \in Providers |-> NoResult], overall |-> "none",
     code |-> NullTime, atEnd |-> FALSE,
     ffail |-> [p \in Providers |-> "none"],
     last |-> "none", rested |-> FALSE]

\* a resource request of p's sync was answered with an error status (or
\* raised) while main waits for that sync: the first such failure is noted
NoteFetchFailure(m, p, kind) ==
    IF m.pc \in {"strava_run", "ticktick_run"}
    THEN [m EXCEPT !.ffail[p] = IF @ = "none" THEN kind ELSE @]
    ELSE m

\* a resource request of the sync main waits for went out; slept: the code
\* that follows its answer ran time.sleep before the next request
NoteRequest(m, kind, slept) ==
    IF m.pc \in {"strava_run", "ticktick_run"}
    THEN [m EXCEPT !.last = kind, !.rested = slept]
    ELSE m

\* Fields of `boot`, the start of a process and its init_schema call.
\*   caller    "api" (app/main.py on_startup), "mcp" (aegis-mcp-python
\*             server.py), "cli" (sync_all.py --init-db)
\*   pc        position in init_schema, then "returned" / "raised"
\*   conn      the connection of db(): "none" | "open" | "closed"
\*   txn       its transaction: "none" | "idle" | "intrans" | "inerror"
\*   i         loop variable of `for i in range(3)`
\*   slept     the time.sleep calls made, in tenths of a second
\*   warm      the storage backend has finished its cold start
\*   schema    the DDL is committed
\*   process   "starting" | "serving" | "aborted"
\* History, kept for the properties:
\*   tries     cur.execute(stmt) calls made
\*   fails     those that raised
\*   warmAt    the attempts (1..3) made when the backend was warm
\*   commitErr conn.commit() raised
\*   connects  connect() calls made
\*   rolledBack  conn.rollback() ran
IdleBoot ==
    [caller |-> "none", pc |-> "off", conn |-> "none", txn |-> "none",
     i |-> 0, slept |-> <<>>, warm |-> FALSE, schema |-> FALSE,
     process |-> "starting", tries |-> 0, fails |-> 0, warmAt |-> {},
     commitErr |-> FALSE, connects |-> 0, rolledBack |-> FALSE]

\* the two Strava syncs of the API server: the task _periodic_strava_sync
\* and the handler of POST /sync/strava in a worker thread
Workers == {"periodic", "manual"}

\* Fields of `web`, the serving API process.
\*   minutes   max(1, int(STRAVA_SYNC_INTERVAL_MINUTES)); 0: no periodic task
\*   w         per worker: pc, the refresh token read (rt), the answer of
\*             the token endpoint (pay)
\*   timer     minutes the periodic task has slept in its current sleep
\* History, kept for the properties:
\*   active    periodic runs begun and not finished
\*   runs      periodic runs begun
\*   lasted    minutes since the current periodic run began
\*   overran   a periodic run lasted longer than the interval
\*   issued    the refresh token the provider issued last (Null: none yet)
\*   saveFailed  a credential write raised
\*   failed    the periodic run that ended last ended by an exception
IdleWorker == [pc |-> "idle", rt |-> Null, pay |-> NoPayload]

IdleWeb ==
    [minutes |-> 0, w |-> [x \in Workers |-> IdleWorker], timer |-> 0,
     active |-> 0, runs |-> 0, lasted |-> 0, overran |-> FALSE,
     issued |-> Null, saveFailed |-> FALSE, failed |-> FALSE]

\* the environments of a process that exercises the providers in sc
EnvsOf(sc) ==
    {e \in Envs : /\ \A p \in Providers \ sc : e.rt[p] = Null
                  /\ "ticktick" \notin sc => e.at = Null}

Init ==
    /\ store = [p \in Providers |-> NoRow]
    /\ scope \in {{p} : p \in Providers}
    /\ env \in EnvsOf(scope)
    /\ now = 0
    /\ run = IdleRun
    /\ tbl = [p \in Providers |-> {}]
    /\ rec = IdleRec
    /\ mn = IdleMain
    /\ boot = IdleBoot
    /\ web = IdleWeb
    /\ job = IdleJob

----------------------------------------------------------------------------
(* Answers of the providers' token endpoints (2xx JSON)                    *)

\* Strava: access_token, optional refresh_token, optional absolute expires_at
StravaAnswers(t) ==
    [rt : {Null} \cup RTokens, at : ATokens,
     exp : {NullTime, 0} \cup {t + d : d \in 1..MaxLife}]

\* TickTick: access_token, optional refresh_token, optional expires_in
TickTickAnswers ==
    [rt : {Null} \cup RTokens, at : ATokens,
     exp : {NullTime} \cup 0..MaxLife]

----------------------------------------------------------------------------
(* Strava: sync_strava -> fetch_all_activities -> strava_access_token      *)

\* variant: the except clause records the message and leaves the status
SyncStravaFailed_StatusKept(r) ==
    [r EXCEPT !.pc = "done", !.errors = @ + 1]

\* sync_strava's except clause: status error, one message, nothing synced
SyncStravaFailed(r) ==
    [r EXCEPT !.pc = "done", !.status = "error", !.errors = @ + 1]

\* variant: the answer's refresh_token is written whether present or not
StravaRowToSave_AnswerOnly(old, rt, pay) ==
    save_refresh_token(old, pay.rt, pay.at, pay.exp)

\* the row strava_access_token persists after a 2xx answer: the rotated
\* refresh token when the answer carries a different one, else the one sent
StravaRowToSave(old, rt, pay) ==
    IF Truthy(pay.rt) /\ pay.rt # rt
    THEN save_refresh_token(old, pay.rt, pay.at, pay.exp)
    ELSE save_refresh_token(old, rt, pay.at, pay.exp)

StartSyncStrava ==
    /\ run.pc = "idle"
    /\ "strava" \in scope
    /\ run' = BeginAcquisition([IdleRun EXCEPT !.p = "strava"],
                               "sv_rt", "activities")
    /\ UNCHANGED <<store, env, now, scope, tbl, rec, mn, boot, web, job>>

\* variant: the missing-token guard is absent, the request goes out
StravaReadRefreshToken_NoGuard ==
    /\ run.pc = "sv_rt"
    /\ run' = [run EXCEPT !.seen = store["strava"], !.seenNow = now,
                          !.rt = RefreshTokenToSend("strava"),
                          !.pc = "sv_post"]
    /\ UNCHANGED <<store, env, now, scope, tbl, rec, mn, boot, web, job>>

\* rt = get_refresh_token() or env; no token anywhere raises before any request
StravaReadRefreshToken ==
    /\ run.pc = "sv_rt"
    /\ LET rt == RefreshTokenToSend("strava")
           r1 == [run EXCEPT !.seen = store["strava"], !.seenNow = now,
                             !.rt = rt]
       IN  run' = IF Truthy(rt)
                  THEN [r1 EXCEPT !.pc = "sv_post"]
                  ELSE SyncStravaFailed(
                           [r1 EXCEPT !.noRT = TRUE, !.raised = TRUE])
    /\ UNCHANGED <<store, env, now, scope, tbl, rec, mn, boot, web, job>>

\* variant: a rejected refresh drops the stored access token before raising
StravaTokenRequest_ClearsOnFailure ==
    /\ run.pc = "sv_post"
    /\ \/ /\ run' = SyncStravaFailed(NoteRefreshFailure(
                        [run EXCEPT !.posts = @ + 1, !.answer = "fail",
                                    !.raised = TRUE]))
          /\ store' = [store EXCEPT
                         !["strava"] = Row(run.rt, Null, NullTime)]
       \/ /\ \E a \in StravaAnswers(now) :
                 run' = [run EXCEPT !.posts = @ + 1, !.answer = "ok",
                                    !.pay = a, !.pc = "sv_save"]
          /\ UNCHANGED store
    /\ UNCHANGED <<env, now, scope, tbl, rec, mn, boot, web, job>>

\* requests.post(STRAVA_OAUTH_TOKEN): status >= 400 or a transport error
\* raises; a 2xx answer is kept for the write
StravaTokenRequest ==
    /\ run.pc = "sv_post"
    /\ \/ run' = SyncStravaFailed(NoteRefreshFailure(
                     [run EXCEPT !.posts = @ + 1, !.answer = "fail",
                                 !.raised = TRUE]))
       \/ \E a \in StravaAnswers(now) :
              run' = [run EXCEPT !.posts = @ + 1, !.answer = "ok",
                                 !.pay = a, !.pc = "sv_save"]
    /\ UNCHANGED <<store, env, now, scope, tbl, rec, mn, boot, web, job>>

\* variant: the access token is handed back without the write
StravaPersist_Skipped ==
    /\ run.pc = "sv_save"
    /\ run' = [run EXCEPT !.pc = "sv_ret"]
    /\ UNCHANGED <<store, env, now, scope, tbl, rec, mn, boot, web, job>>

\* save_refresh_token inside db(): committed on exit, or rolled back and raised
StravaPersist ==
    /\ run.pc = "sv_save"
    /\ \/ LET row == StravaRowToSave(store["strava"], run.rt, run.pay)
          IN  /\ store' = [store EXCEPT !["strava"] = row]
              /\ run' = [run EXCEPT !.wrote = row, !.pc = "sv_ret"]
       \/ /\ run' = SyncStravaFailed([run EXCEPT !.raised = TRUE])
          /\ UNCHANGED store
    /\ UNCHANGED <<env, now, scope, tbl, rec, mn, boot, web, job>>

\* return payload["access_token"]; fetch_all_activities builds its header
StravaReturn ==
    /\ run.pc = "sv_ret"
    /\ run' = [run EXCEPT !.token = run.pay.at, !.via = "refresh",
                          !.pc = "sv_page"]
    /\ UNCHANGED <<store, env, now, scope, tbl, rec, mn, boot, web, job>>

\* variant: every page is upserted as it arrives
StravaPage_UpsertsEachPage ==
    /\ run.pc = "sv_page"
    /\ LET r1 == EndAcquisition(
                     [run EXCEPT !.resReqs = @ + 1, !.tokReqs = @ + 1])
       IN  \/ /\ run' = SyncStravaFailed(r1)
              /\ mn' = NoteFetchFailure(mn, "strava", "activities")
           \/ /\ run.page < MaxPages
              /\ \E n \in 1..MaxBatch :
                     run' = [r1 EXCEPT !.page = @ + 1, !.fetched = @ + n,
                                       !.synced = @ + n]
              /\ UNCHANGED mn
           \/ /\ run' = [r1 EXCEPT !.pc = "done"]
              /\ UNCHANGED mn
    /\ UNCHANGED <<store, env, now, scope, tbl, rec, boot, web, job>>

\* variant: a failed page is skipped and the loop goes on
StravaPage_SkipsFailedPage ==
    /\ run.pc = "sv_page"
    /\ LET r1 == EndAcquisition(
                     [run EXCEPT !.resReqs = @ + 1, !.tokReqs = @ + 1])
       IN  \/ /\ run.page < MaxPages
              /\ run' = [r1 EXCEPT !.page = @ + 1]
              /\ mn' = NoteFetchFailure(mn, "strava", "activities")
           \/ /\ run.page < MaxPages
              /\ \E n \in 1..MaxBatch :
                     run' = [r1 EXCEPT !.page = @ + 1, !.fetched = @ + n]
              /\ UNCHANGED mn
           \/ /\ run' = IF r1.fetched = 0
                        THEN [r1 EXCEPT !.pc = "done"]
                        ELSE [r1 EXCEPT !.pc = "sv_upsert"]
              /\ UNCHANGED mn
    /\ UNCHANGED <<store, env, now, scope, tbl, rec, boot, web, job>>

\* one activities page: an error status raises, an empty page ends the
\* loop; after a non-empty page: extend, page += 1, time.sleep(0.1)
StravaPage ==
    /\ run.pc = "sv_page"
    /\ LET r1 == EndAcquisition(
                     [run EXCEPT !.resReqs = @ + 1, !.tokReqs = @ + 1])
       IN  \/ /\ run' = SyncStravaFailed(r1)
              /\ mn' = NoteFetchFailure(
                           NoteRequest(mn, "activities", FALSE),
                           "strava", "activities")
           \/ /\ run.page < MaxPages
              /\ \E n \in 1..MaxBatch :
                     run' = [r1 EXCEPT !.page = @ + 1, !.fetched = @ + n]
              /\ mn' = NoteRequest(mn, "activities", TRUE)
           \/ /\ run' = IF r1.fetched = 0
                        THEN [r1 EXCEPT !.pc = "done"]
                        ELSE [r1 EXCEPT !.pc = "sv_upsert"]
              /\ mn' = NoteRequest(mn, "activities", FALSE)
    /\ UNCHANGED <<store, env, now, scope, tbl, rec, boot, web, job>>

\* upsert_activities(activities): the count of rows passed, or a storage error
StravaUpsert ==
    /\ run.pc = "sv_upsert"
    /\ \/ run' = [run EXCEPT !.synced = run.fetched, !.pc = "done"]
       \/ run' = SyncStravaFailed(run)
    /\ UNCHANGED <<store, env, now, scope, tbl, rec, mn, boot, web, job>>

----------------------------------------------------------------------------
(* TickTick: sync_ticktick -> list_projects / get_project_tasks -> headers *)

\* sync_ticktick's outer except clause
SyncTickTickFailed(r) ==
    [r EXCEPT !.pc = "done", !.status = "error", !.errors = @ + 1]

\* the per-project except clause: one message, the loop goes on
ProjectFailed(r) ==
    [r EXCEPT !.pc = "tt_next", !.errors = @ + 1, !.projLeft = @ - 1]

\* headers() raised: list_projects is under the outer try, get_project_tasks
\* under the per-project one
HeadersRaised(r) ==
    IF r.req = "list"
    THEN SyncTickTickFailed([r EXCEPT !.raised = TRUE])
    ELSE ProjectFailed([r EXCEPT !.raised = TRUE])

\* headers(): refresh_access_token raised and was swallowed; fall back to
\* TICKTICK_ACCESS_TOKEN, or raise "No valid TickTick token available"
HeadersFallback(r) ==
    IF Truthy(env.at)
    THEN [r EXCEPT !.token = env.at, !.via = "env", !.pc = "tt_get"]
    ELSE HeadersRaised(r)

\* the row refresh_access_token persists after a 2xx answer:
\* save_tokens(payload.get("refresh_token") or rt, access_token, expires_in)
TickTickRowToSave(old, t, rt, pay) ==
    save_tokens(old, t, IF Truthy(pay.rt) THEN pay.rt ELSE rt, pay.at, pay.exp)

\* project_ids given: no project list is fetched
StartSyncTickTick ==
    /\ run.pc = "idle"
    /\ "ticktick" \in scope
    /\ \/ \E n \in 1..MaxProjects :
              run' = [IdleRun EXCEPT !.p = "ticktick", !.pc = "tt_next",
                                     !.projLeft = n]
       \/ run' = BeginAcquisition([IdleRun EXCEPT !.p = "ticktick"],
                                  "hd_read", "list")
    /\ UNCHANGED <<store, env, now, scope, tbl, rec, mn, boot, web, job>>

\* headers(): the cached access token is used while it is valid
HeadersReadCache ==
    /\ run.pc = "hd_read"
    /\ LET c == get_stored_access_token(store["ticktick"])
           r1 == [run EXCEPT !.seen = store["ticktick"], !.seenNow = now]
       IN  run' = IF CacheValid(c[1], c[2], now)
                  THEN [r1 EXCEPT !.token = c[1], !.via = "cache",
                                  !.pc = "tt_get"]
                  ELSE [r1 EXCEPT !.pc = "rf_rt"]
    /\ UNCHANGED <<store, env, now, scope, tbl, rec, mn, boot, web, job>>

\* refresh_access_token: rt = get_refresh_token() or env; none raises
RefreshReadRefreshToken ==
    /\ run.pc = "rf_rt"
    /\ LET rt == RefreshTokenToSend("ticktick")
           r1 == [run EXCEPT !.rt = rt]
       IN  run' = IF Truthy(rt)
                  THEN [r1 EXCEPT !.pc = "rf_post"]
                  ELSE HeadersFallback([r1 EXCEPT !.noRT = TRUE])
    /\ UNCHANGED <<store, env, now, scope, tbl, rec, mn, boot, web, job>>

\* variant: the new access token is returned at once, the write comes later
RefreshTokenRequest_WriteDeferred ==
    /\ run.pc = "rf_post"
    /\ \/ run' = HeadersFallback(NoteRefreshFailure(
                     [run EXCEPT !.posts = @ + 1, !.answer = "fail"]))
       \/ \E a \in TickTickAnswers :
              run' = [run EXCEPT !.posts = @ + 1, !.answer = "ok",
                                 !.pay = a, !.pc = "rf_ret"]
    /\ UNCHANGED <<store, env, now, scope, tbl, rec, mn, boot, web, job>>

\* requests.post(OAUTH_TOKEN): status >= 400 or a transport error raises
RefreshTokenRequest ==
    /\ run.pc = "rf_post"
    /\ \/ run' = HeadersFallback(NoteRefreshFailure(
                     [run EXCEPT !.posts = @ + 1, !.answer = "fail"]))
       \/ \E a \in TickTickAnswers :
              run' = [run EXCEPT !.posts = @ + 1, !.answer = "ok",
                                 !.pay = a, !.pc = "rf_save"]
    /\ UNCHANGED <<store, env, now, scope, tbl, rec, mn, boot, web, job>>

\* save_tokens inside db(): committed on exit, or rolled back and raised
RefreshPersist ==
    /\ run.pc = "rf_save"
    /\ \/ LET row == TickTickRowToSave(store["ticktick"], now, run.rt, run.pay)
          IN  /\ store' = [store EXCEPT !["ticktick"] = row]
              /\ run' = [run EXCEPT !.wrote = row, !.pc = "rf_ret"]
       \/ /\ run' = HeadersFallback(run)
          /\ UNCHANGED store
    /\ UNCHANGED <<env, now, scope, tbl, rec, mn, boot, web, job>>

\* return payload["access_token"]; headers() wraps it
RefreshReturn ==
    /\ run.pc = "rf_ret"
    /\ run' = [run EXCEPT !.token = run.pay.at, !.via = "refresh",
                          !.pc = "tt_get"]
    /\ UNCHANGED <<store, env, now, scope, tbl, rec, mn, boot, web, job>>

\* a JSON list of n task records
TaskList(n) == [t |-> "list", n |-> n]

\* what a key of a JSON object may hold: a list of tasks, null, some other
\* value that is not empty (an object, a text, a number), or nothing
JsonMembers ==
    {TaskList(n) : n \in 0..MaxBatch}
        \cup {[t |-> k, n |-> 0] : k \in {"null", "object", "absent"}}

\* the JSON bodies of GET /project/{id}/data: a list of n tasks (top,
\* n); an object with its "tasks" member and its "syncTaskBean" member,
\* itself absent, an object with a "tasks" member (bean, beanTasks), or
\* something else; any other value.  One body of each kind the function
\* tells apart:
DataPayloads ==
    LET Absent == [t |-> "absent", n |-> 0]
        Null_ == [t |-> "null", n |-> 0]
        Object == [t |-> "object", n |-> 0]
    IN  [top : {"list"}, n : 0..MaxBatch, tasks : {Absent},
         bean : {"absent"}, beanTasks : {Absent}]
        \cup [top : {"scalar"}, n : {0}, tasks : {Absent},
              bean : {"absent"}, beanTasks : {Absent}]
        \cup [top : {"dict"}, n : {0},
              tasks : {TaskList(n) : n \in 0..MaxBatch} \cup {Absent},
              bean : {"absent"}, beanTasks : {Absent}]
        \cup [top : {"dict"}, n : {0}, tasks : {Null_},
              bean : {"dict"},
              beanTasks : {TaskList(MaxBatch), Null_, Object}]
        \cup [top : {"dict"}, n : {0}, tasks : {Object},
              bean : {"scalar"}, beanTasks : {Absent}]

\* get_project_tasks: the payload when it is a list, payload["tasks"] when
\* that is a list, payload["syncTaskBean"]["tasks"] when syncTaskBean is a
\* dict with that key, else []
get_project_tasks(payload) ==
    IF payload.top = "list" THEN TaskList(payload.n)
    ELSE IF payload.top = "dict" /\ payload.tasks.t = "list"
    THEN payload.tasks
    ELSE IF /\ payload.top = "dict" /\ payload.bean = "dict"
            /\ payload.beanTasks.t # "absent"
    THEN payload.beanTasks
    ELSE TaskList(0)

\* bool(v) of what get_project_tasks returned
TruthyTasks(v) == v.t = "object" \/ (v.t = "list" /\ v.n > 0)

\* the request is sent with the header built: the acquisition is over
TickTickRequested(r) ==
    EndAcquisition([r EXCEPT !.resReqs = @ + 1, !.tokReqs = @ + 1,
                             !.token = Null])

\* variant: a project without tasks is recorded as a failed project
TickTickDataAnswered_EmptyIsError(payload) ==
    /\ run.pc = "tt_get" /\ run.req = "data"
    /\ LET r1 == TickTickRequested(run)
           tasks == get_project_tasks(payload)
       IN  run' = IF ~TruthyTasks(tasks) \/ tasks.t # "list"
                  THEN ProjectFailed(r1)
                  ELSE [r1 EXCEPT !.tasks = tasks.n, !.pc = "tt_upsert"]
    /\ UNCHANGED <<store, env, now, scope, tbl, rec, mn, boot, web, job>>

\* GET /project/{id}/data answered 2xx with payload: `if tasks:` skips the
\* upsert of an empty list and the loop goes on; upsert_tasks raises at the
\* first `t.get` when it is handed something that is not a list of records
TickTickDataAnswered(payload) ==
    /\ run.pc = "tt_get" /\ run.req = "data"
    /\ LET r1 == TickTickRequested(run)
           tasks == get_project_tasks(payload)
       IN  run' = IF ~TruthyTasks(tasks)
                  THEN [r1 EXCEPT !.pc = "tt_next", !.projLeft = @ - 1]
                  ELSE IF tasks.t # "list"
                  THEN ProjectFailed(r1)
                  ELSE [r1 EXCEPT !.tasks = tasks.n, !.pc = "tt_upsert"]
    /\ mn' = NoteRequest(mn, "data", FALSE)
    /\ UNCHANGED <<store, env, now, scope, tbl, rec, boot, web, job>>

\* requests.get(.../project) or (.../project/{id}/data) with the header built
TickTickRequest ==
    \/ /\ run.pc = "tt_get" /\ run.req = "list"
       /\ \/ /\ run' = SyncTickTickFailed(TickTickRequested(run))
             /\ mn' = NoteFetchFailure(NoteRequest(mn, "list", FALSE),
                                       "ticktick", "list")
          \/ /\ \E n \in 0..MaxProjects :
                    run' = [TickTickRequested(run) EXCEPT
                               !.projLeft = n, !.pc = "tt_next"]
             /\ mn' = NoteRequest(mn, "list", FALSE)
       /\ UNCHANGED <<store, env, now, scope, tbl, rec, boot, web, job>>
    \/ /\ run.pc = "tt_get" /\ run.req = "data"
       /\ run' = ProjectFailed(TickTickRequested(run))
       /\ mn' = NoteFetchFailure(NoteRequest(mn, "data", FALSE),
                                 "ticktick", "data")
       /\ UNCHANGED <<store, env, now, scope, tbl, rec, boot, web, job>>
    \/ /\ run.pc = "tt_get" /\ run.req = "data"
       /\ \E payload \in DataPayloads : TickTickDataAnswered(payload)

\* upsert_tasks(tasks) of one project, or a storage error
TickTickUpsert ==
    /\ run.pc = "tt_upsert"
    /\ \/ run' = [run EXCEPT !.synced = @ + run.tasks, !.projects = @ + 1,
                             !.pc = "tt_next", !.projLeft = @ - 1]
       \/ run' = ProjectFailed(run)
    /\ UNCHANGED <<store, env, now, scope, tbl, rec, mn, boot, web, job>>

\* head of `for project in projects_to_sync`
TickTickNextProject ==
    /\ run.pc = "tt_next"
    /\ run' = IF run.projLeft = 0
              THEN [run EXCEPT !.pc = "done"]
              ELSE BeginAcquisition(run, "hd_read", "data")
    /\ UNCHANGED <<store, env, now, scope, tbl, rec, mn, boot, web, job>>

\* the result record is handed to the caller
Finish ==
    /\ run.pc = "done"
    /\ run' = IdleRun
    /\ UNCHANGED <<store, env, now, scope, tbl, rec, mn, boot, web, job>>

----------------------------------------------------------------------------
(* Operator handlers of the UI, and the clock                              *)

\* ui.do_reset -> strava.reset_refresh_token(val or None)
ResetStravaWith(new) ==
    /\ run.pc = "idle"
    /\ "strava" \in scope
    /\ store' = [store EXCEPT
                   !["strava"] = strava_reset_refresh_token(@, new)]
    /\ UNCHANGED <<env, now, run, scope, tbl, rec, mn, boot, web, job>>

ResetStrava == \E new \in {Null} \cup RTokens : ResetStravaWith(new)

\* ui.do_tt_reset -> ticktick.reset_refresh_token(val or None)
ResetTickTickWith(new) ==
    /\ run.pc = "idle"
    /\ "ticktick" \in scope
    /\ store' = [store EXCEPT
                   !["ticktick"] = ticktick_reset_refresh_token(@, new)]
    /\ UNCHANGED <<env, now, run, scope, tbl, rec, mn, boot, web, job>>

ResetTickTick == \E new \in {Null} \cup RTokens : ResetTickTickWith(new)

\* strava.exchange_code_for_tokens answered with payload a: saves only when
\* a refresh token came back
ExchangeStravaWith(a) ==
    /\ run.pc = "idle"
    /\ "strava" \in scope
    /\ store' = IF Truthy(a.rt)
                THEN [store EXCEPT !["strava"] =
                          save_refresh_token(@, a.rt, a.at, a.exp)]
                ELSE store
    /\ UNCHANGED <<env, now, run, scope, tbl, rec, mn, boot, web, job>>

ExchangeStrava == \E a \in StravaAnswers(now) : ExchangeStravaWith(a)

\* ticktick.exchange_code_for_tokens answered with payload a: saves
\* whatever came back
ExchangeTickTickWith(a) ==
    /\ run.pc = "idle"
    /\ "ticktick" \in scope
    /\ store' = [store EXCEPT !["ticktick"] =
                    save_tokens(@, now, a.rt, a.at, a.exp)]
    /\ UNCHANGED <<env, now, run, scope, tbl, rec, mn, boot, web, job>>

ExchangeTickTick == \E a \in TickTickAnswers : ExchangeTickTickWith(a)

Tick ==
    /\ now < MaxTime
    /\ now' = now + 1
    /\ UNCHANGED <<store, env, run, scope, tbl, rec, mn, boot, web, job>>

----------------------------------------------------------------------------

Next ==
    \/ StartSyncStrava \/ StravaReadRefreshToken \/ StravaTokenRequest
    \/ StravaPersist \/ StravaReturn \/ StravaPage \/ StravaUpsert
    \/ StartSyncTickTick \/ HeadersReadCache \/ RefreshReadRefreshToken
    \/ RefreshTokenRequest \/ RefreshPersist \/ RefreshReturn
    \/ TickTickRequest \/ TickTickUpsert \/ TickTickNextProject
    \/ Finish
    \/ ResetStrava \/ ResetTickTick \/ ExchangeStrava \/ ExchangeTickTick
    \/ Tick

Spec == Init /\ [][Next]_vars

----------------------------------------------------------------------------
(* Record-level sync: the handlers /sync/strava and /sync/ticktick/{id} of *)
(* app/main.py, with the records fetched and the rows written.  The token  *)
(* acquisition of each is the one of Spec; here it returns a token or      *)
(* raises.                                                                 *)

\* an environment without fallback credentials
NoEnv == [rt |-> [p \in Providers |-> Null], at |-> Null]

InitRec ==
    /\ store = [p \in Providers |-> NoRow]
    /\ scope \in {{p} : p \in Providers}
    /\ env = NoEnv
    /\ now = 0
    /\ run = IdleRun
    /\ tbl = [p \in Providers |-> {}]
    /\ rec = IdleRec
    /\ mn = IdleMain
    /\ boot = IdleBoot
    /\ web = IdleWeb
    /\ job = IdleJob

\* the handler raised: HTTP 500 to the client
RecRaised(r) ==
    [r EXCEPT !.pc = "done", !.raised = TRUE, !.tx = {}]

\* variant: the exception path of db() has no finally clause
DbRaised_LeavesOpen(r) ==
    RecRaised([r EXCEPT !.rolledBack = TRUE])

\* db(): `except Exception: conn.rollback(); raise`, `finally: conn.close()`
DbRaised(r) ==
    RecRaised([r EXCEPT !.rolledBack = TRUE, !.conn = "closed"])

\* fetch_all_activities(page_start=ps): token, then page = page_start
FetchStart ==
    /\ rec.pc = "idle"
    /\ "strava" \in scope
    /\ \/ rec' = RecRaised([IdleRec EXCEPT !.p = "strava"])
       \/ \E ps \in 1..MaxPages :
              rec' = [IdleRec EXCEPT !.p = "strava", !.pc = "page",
                                     !.page_start = ps, !.page = ps]
    /\ UNCHANGED <<store, env, now, run, scope, tbl, mn, boot, web, job>>

\* variant: a generator, each page is handed to the caller as it arrives
FetchPage_Yields ==
    /\ rec.pc = "page"
    /\ LET r1 == [rec EXCEPT !.reqs = Append(@, rec.page)]
       IN  \/ rec' = RecRaised(r1)
           \/ /\ Len(rec.served) < MaxPages
              /\ \E batch \in PageContents :
                     rec' = [r1 EXCEPT !.results = @ \o batch,
                                       !.page = @ + 1,
                                       !.served = Append(@, batch),
                                       !.handed = @ + 1]
           \/ rec' = [r1 EXCEPT !.pc = "upsert", !.rows = r1.results,
                                !.handed = Len(r1.served)]
    /\ UNCHANGED <<store, env, now, run, scope, tbl, mn, boot, web, job>>

\* variant: the batch replaces the results instead of extending them
FetchPage_KeepsLastPage ==
    /\ rec.pc = "page"
    /\ LET r1 == [rec EXCEPT !.reqs = Append(@, rec.page)]
       IN  \/ rec' = RecRaised(r1)
           \/ /\ Len(rec.served) < MaxPages
              /\ \E batch \in PageContents :
                     rec' = [r1 EXCEPT !.results = batch,
                                       !.page = @ + 1,
                                       !.served = Append(@, batch)]
           \/ rec' = [r1 EXCEPT !.pc = "upsert", !.rows = r1.results,
                                !.handed = Len(r1.served)]
    /\ UNCHANGED <<store, env, now, run, scope, tbl, mn, boot, web, job>>

\* one turn of `while True`: GET page; raise_for_status; an empty batch
\* breaks and the list is returned to the caller, else extend and page += 1
FetchPage ==
    /\ rec.pc = "page"
    /\ LET r1 == [rec EXCEPT !.reqs = Append(@, rec.page)]
       IN  \/ rec' = RecRaised(r1)
           \/ /\ Len(rec.served) < MaxPages
              /\ \E batch \in PageContents :
                     rec' = [r1 EXCEPT !.results = @ \o batch,
                                       !.page = @ + 1,
                                       !.served = Append(@, batch)]
           \/ rec' = [r1 EXCEPT !.pc = "upsert", !.rows = r1.results,
                                !.handed = Len(r1.served)]
    /\ UNCHANGED <<store, env, now, run, scope, tbl, mn, boot, web, job>>

\* tasks = get_project_tasks(project_id): one request, a list or an error
TasksFetch ==
    /\ rec.pc = "idle"
    /\ "ticktick" \in scope
    /\ \/ rec' = RecRaised([IdleRec EXCEPT !.p = "ticktick"])
       \/ \E tasks \in TaskLists :
              rec' = [IdleRec EXCEPT !.p = "ticktick", !.pc = "upsert",
                                     !.rows = tasks]
    /\ UNCHANGED <<store, env, now, run, scope, tbl, mn, boot, web, job>>

\* upsert_*(rows): `if not rows: return 0`, else db() opens the connection
UpsertCall ==
    /\ rec.pc = "upsert"
    /\ LET r1 == [rec EXCEPT !.results = <<>>, !.reqs = <<>>,
                             !.served = <<>>, !.handed = 0,
                             !.before = tbl[rec.p]]
       IN  IF rec.rows = <<>>
           THEN rec' = [r1 EXCEPT !.ret = 0, !.ok = TRUE, !.pc = "done"]
           ELSE \/ rec' = [r1 EXCEPT !.pc = "exec", !.k = 1,
                                     !.tx = tbl[rec.p], !.conn = "open"]
                \/ rec' = RecRaised(r1)
    /\ UNCHANGED <<store, env, now, run, scope, tbl, mn, boot, web, job>>

\* variant: every record is committed as it is written
UpsertExecute_CommitsEach ==
    /\ rec.pc = "exec"
    /\ LET t == IF rec.k = 1 THEN now ELSE rec.t0
           w == upsert_row(rec.tx, DeriveRow(rec.p, rec.rows[rec.k], t))
       IN  \/ /\ rec' = [rec EXCEPT
                           !.tx = w, !.t0 = t, !.k = @ + 1,
                           !.bodyOk = rec.k = Len(rec.rows),
                           !.pc = IF rec.k = Len(rec.rows)
                                  THEN "commit" ELSE "exec"]
              /\ tbl' = [tbl EXCEPT ![rec.p] = w]
           \/ /\ rec' = DbRaised([rec EXCEPT !.failedAt = rec.k, !.t0 = t])
              /\ UNCHANGED tbl
    /\ UNCHANGED <<store, env, now, run, scope, mn, boot, web, job>>

\* cur.execute(sql, rec) for rows[k], inside the one transaction of the
\* batch; now() is the time the transaction began.  An exception leaves the
\* with-block: rollback, close, raise
UpsertExecute ==
    /\ rec.pc = "exec"
    /\ LET t == IF rec.k = 1 THEN now ELSE rec.t0
           w == upsert_row(rec.tx, DeriveRow(rec.p, rec.rows[rec.k], t))
       IN  \/ rec' = [rec EXCEPT
                        !.tx = w, !.t0 = t, !.k = @ + 1,
                        !.bodyOk = rec.k = Len(rec.rows),
                        !.pc = IF rec.k = Len(rec.rows)
                               THEN "commit" ELSE "exec"]
           \/ rec' = DbRaised([rec EXCEPT !.failedAt = rec.k, !.t0 = t])
    /\ UNCHANGED <<store, env, now, run, scope, tbl, mn, boot, web, job>>

\* variant: the rows written are counted, not the records passed
UpsertCommit_CountsRows ==
    /\ rec.pc = "commit"
    /\ \/ /\ tbl' = [tbl EXCEPT ![rec.p] = rec.tx]
          /\ rec' = [rec EXCEPT
                       !.pc = "done", !.ok = TRUE, !.tx = {},
                       !.committed = TRUE, !.conn = "closed",
                       !.ret = Cardinality({rec.rows[i].id :
                                               i \in 1..Len(rec.rows)})]
       \/ /\ rec' = DbRaised(rec)
          /\ UNCHANGED tbl
    /\ UNCHANGED <<store, env, now, run, scope, mn, boot, web, job>>

\* the with-block ends: conn.commit(), or it raises and the batch is rolled
\* back; then `return len(rows)`
UpsertCommit ==
    /\ rec.pc = "commit"
    /\ \/ /\ tbl' = [tbl EXCEPT ![rec.p] = rec.tx]
          /\ rec' = [rec EXCEPT !.pc = "done", !.ok = TRUE, !.tx = {},
                                !.committed = TRUE, !.conn = "closed",
                                !.ret = Len(rec.rows)]
       \/ /\ rec' = DbRaised(rec)
          /\ UNCHANGED tbl
    /\ UNCHANGED <<store, env, now, run, scope, mn, boot, web, job>>

\* the client posts the same sync again and the provider answers with the
\* same records: the fetch is not replayed, its list is passed on
RepeatSync ==
    /\ rec.pc = "done"
    /\ rec.ok /\ ~rec.again /\ rec.rows # <<>>
    /\ rec' = [IdleRec EXCEPT !.p = rec.p, !.pc = "upsert",
                              !.rows = rec.rows, !.again = TRUE]
    /\ UNCHANGED <<store, env, now, run, scope, tbl, mn, boot, web, job>>

\* the response is sent
RecReturn ==
    /\ rec.pc = "done"
    /\ rec' = IdleRec
    /\ UNCHANGED <<store, env, now, run, scope, tbl, mn, boot, web, job>>

RecNext ==
    \/ FetchStart \/ FetchPage \/ TasksFetch
    \/ UpsertCall \/ UpsertExecute \/ UpsertCommit
    \/ RepeatSync \/ RecReturn
    \/ Tick

RecSpec == InitRec /\ [][RecNext]_vars

----------------------------------------------------------------------------
(* The upsert of one fetched list whose records carry a timestamp field:   *)
(* the same handlers as RecSpec, the fetch taken as one step.              *)

\* records that differ in their id and in their timestamp field only: the
\* key missing, or one of the texts
StampedRecords ==
    {r \in RawRecords : r.name = Null /\ r.json = Null}
        \cup [id : Ids, name : {Null}, json : {Null},
              start_date : Timestamps]

\* a fetched list, not empty
StampedLists == SeqsBetween(StampedRecords, 1, MaxRecords)

\* data = fetch_all_activities(...) or tasks = tt_get_tasks(project_id)
\* returned a list, or raised
BatchFetch ==
    /\ rec.pc = "idle"
    /\ \E p \in scope :
           \/ rec' = RecRaised([IdleRec EXCEPT !.p = p])
           \/ \E rows \in StampedLists :
                  rec' = [IdleRec EXCEPT !.p = p, !.pc = "upsert",
                                         !.rows = rows]
    /\ UNCHANGED <<store, env, now, run, scope, tbl, mn, boot, web, job>>

BatchNext ==
    \/ BatchFetch
    \/ UpsertCall \/ UpsertExecute \/ UpsertCommit
    \/ RecReturn

BatchSpec == InitRec /\ [][BatchNext]_vars

----------------------------------------------------------------------------
(* sync_strava and sync_ticktick of sync_all.py with the records they      *)
(* fetch and the rows they write, run twice over the same provider data.   *)
(* A sync is short: the clock moves between the two syncs, not inside one. *)

\* records that differ in their id and their name
NamedRecords == {r \in RawRecords : r.json = Null}

\* what the provider holds for one sync: strava, the non-empty pages of the
\* activity list; ticktick, the task list of each project
ProviderData(p) ==
    IF p = "strava"
    THEN SeqsBetween(SeqsBetween(NamedRecords, 1, MaxBatch), 0, MaxPages)
    ELSE SeqsBetween(SeqsBetween(NamedRecords, 0, MaxTasks), 0, MaxProjects)

\* the tables an earlier sync left: nothing, or one row written at time 0
EarlierTables(p) ==
    {{}} \cup {{DeriveRow(p, r, 0)} : r \in NamedRecords}

InitResume ==
    /\ store = [p \in Providers |-> NoRow]
    /\ scope \in {{p} : p \in Providers}
    /\ env = NoEnv
    /\ now = 0
    /\ run = IdleRun
    /\ tbl \in [Providers -> UNION {EarlierTables(p) : p \in Providers}]
    /\ \A p \in Providers :
           tbl[p] \in (IF p \in scope THEN EarlierTables(p) ELSE {{}})
    /\ rec = IdleRec
    /\ mn = IdleMain
    /\ boot = IdleBoot
    /\ web = IdleWeb
    /\ job = IdleJob

\* the sync is over before its end: sync_strava's or sync_ticktick's outer
\* handler caught an exception, or the process was killed; a transaction
\* that was open is rolled back
JobStopped(j, why) ==
    [j EXCEPT !.pc = "done", !.cut = why, !.tx = {}, !.rows = <<>>,
              !.k = 0]

\* get_project_tasks raised inside the project loop: the error is appended
\* and the loop goes to the next project
ProjectFetchFailed(j) ==
    [j EXCEPT !.errors = @ + 1, !.i = @ + 1]

\* variant: a failed upsert of one project ends the whole sync
WriteFailed_EndsSync(j) ==
    JobStopped([j EXCEPT !.errors = @ + 1], "upsert")

\* inside the project loop of sync_ticktick: the error is appended and the
\* loop goes to the next project; in sync_strava it ends the sync
WriteFailed(j) ==
    IF j.p = "strava"
    THEN JobStopped([j EXCEPT !.errors = @ + 1], "upsert")
    ELSE [j EXCEPT !.errors = @ + 1, !.i = @ + 1, !.pc = "project",
                   !.tx = {}, !.rows = <<>>, !.k = 0]

\* the first of the two syncs starts
JobStart ==
    /\ job.pc = "idle"
    /\ \E p \in scope : \E data \in ProviderData(p) :
           job' = [IdleJob EXCEPT !.p = p, !.pc = "token", !.phase = 1,
                                  !.t = now, !.data = data,
                                  !.start = tbl[p]]
    /\ UNCHANGED <<store, env, now, run, scope, tbl, rec, mn, boot, web>>

\* strava_access_token() / headers(): a token, or the refresh fails
JobToken ==
    /\ job.pc = "token"
    /\ \/ job' = [job EXCEPT !.pc = "fetch", !.i = 1]
       \/ job' = JobStopped([job EXCEPT !.errors = @ + 1], "refresh")
    /\ UNCHANGED <<store, env, now, run, scope, tbl, rec, mn, boot, web>>

\* fetch_all_activities: GET page i; the page after the last non-empty one
\* is empty and ends the fetch; `if not activities: return results`, else
\* upsert_activities opens its transaction
StravaFetchPage ==
    /\ job.pc = "fetch" /\ job.p = "strava"
    /\ \/ job' = JobStopped([job EXCEPT !.errors = @ + 1], "fetch")
       \/ /\ job.i <= Len(job.data)
          /\ job' = [job EXCEPT !.rows = @ \o job.data[job.i],
                                !.i = @ + 1]
       \/ /\ job.i > Len(job.data)
          /\ job' = IF job.rows = <<>>
                    THEN [job EXCEPT !.pc = "done"]
                    ELSE [job EXCEPT !.pc = "exec", !.k = 1,
                                     !.tx = tbl[job.p]]
    /\ UNCHANGED <<store, env, now, run, scope, tbl, rec, mn, boot, web>>

\* list_projects(): the project list, or the sync fails
TickTickListProjects ==
    /\ job.pc = "fetch" /\ job.p = "ticktick"
    /\ \/ job' = JobStopped([job EXCEPT !.errors = @ + 1], "fetch")
       \/ job' = [job EXCEPT !.pc = "project", !.i = 1]
    /\ UNCHANGED <<store, env, now, run, scope, tbl, rec, mn, boot, web>>

\* one turn of `for project in projects_to_sync`: get_project_tasks, then
\* `if tasks:` upsert_tasks opens its transaction; after the last project
\* the sync returns
TickTickProjectTasks ==
    /\ job.pc = "project"
    /\ IF job.i > Len(job.data)
       THEN job' = [job EXCEPT !.pc = "done"]
       ELSE \/ job' = ProjectFetchFailed(job)
            \/ job' = IF job.data[job.i] = <<>>
                      THEN [job EXCEPT !.i = @ + 1]
                      ELSE [job EXCEPT !.pc = "exec", !.k = 1,
                                       !.rows = job.data[job.i],
                                       !.tx = tbl[job.p]]
    /\ UNCHANGED <<store, env, now, run, scope, tbl, rec, mn, boot, web>>

\* cur.execute(sql, rec) for rows[k] inside the transaction of the batch
JobExecute ==
    /\ job.pc = "exec"
    /\ \/ job' = [job EXCEPT
                     !.tx = upsert_row(@, DeriveRow(job.p, job.rows[job.k],
                                                    job.t)),
                     !.k = @ + 1,
                     !.pc = IF job.k = Len(job.rows)
                            THEN "commit" ELSE "exec"]
       \/ job' = WriteFailed(job)
    /\ UNCHANGED <<store, env, now, run, scope, tbl, rec, mn, boot, web>>

\* the with-block of upsert_* ends: conn.commit(), or it raises and the
\* batch is rolled back
JobCommit ==
    /\ job.pc = "commit"
    /\ \/ /\ tbl' = [tbl EXCEPT ![job.p] = job.tx]
          /\ job' = IF job.p = "strava"
                    THEN [job EXCEPT !.pc = "done", !.tx = {},
                                     !.rows = <<>>, !.k = 0]
                    ELSE [job EXCEPT !.pc = "project", !.i = @ + 1,
                                     !.tx = {}, !.rows = <<>>, !.k = 0]
       \/ /\ job' = WriteFailed(job)
          /\ UNCHANGED tbl
    /\ UNCHANGED <<store, env, now, run, scope, rec, mn, boot, web>>

\* the process is interrupted (a signal, a timeout of its caller) while the
\* sync is in flight: the server rolls an open transaction back
JobInterrupt ==
    /\ job.pc \in {"token", "fetch", "project", "exec", "commit"}
    /\ job' = JobStopped(job, "killed")
    /\ UNCHANGED <<store, env, now, run, scope, tbl, rec, mn, boot, web>>

\* time passes between the first sync and the next
JobPause ==
    /\ job.pc = "done" /\ job.phase = 1
    /\ now < MaxTime
    /\ now' = now + 1
    /\ UNCHANGED <<store, env, run, scope, tbl, rec, mn, boot, web, job>>

\* the sync runs again and the provider holds what it held
JobAgain ==
    /\ job.pc = "done" /\ job.phase = 1
    /\ job' = [IdleJob EXCEPT
                  !.p = job.p, !.pc = "token", !.phase = 2, !.t = now,
                  !.data = job.data, !.start = job.start,
                  !.mid = tbl[job.p],
                  !.first = IF job.cut # "none" THEN job.cut
                            ELSE IF job.errors > 0 THEN "partial"
                            ELSE "whole"]
    /\ UNCHANGED <<store, env, now, run, scope, tbl, rec, mn, boot, web>>

\* the second sync has returned and the process exits
JobReturn ==
    /\ job.pc = "done" /\ job.phase = 2
    /\ job' = [job EXCEPT !.pc = "exited"]
    /\ UNCHANGED <<store, env, now, run, scope, tbl, rec, mn, boot, web>>

ResumeNext ==
    \/ JobStart \/ JobToken
    \/ StravaFetchPage \/ TickTickListProjects \/ TickTickProjectTasks
    \/ JobExecute \/ JobCommit
    \/ JobInterrupt \/ JobPause \/ JobAgain \/ JobReturn

ResumeSpec == InitResume /\ [][ResumeNext]_vars

----------------------------------------------------------------------------
(* sync_all.main: one command-line invocation, both providers in turn.     *)
(* The invocation is short: the clock stands still in it, and a token that *)
(* expires during it is one answered with expires_in = 0.                  *)

\* the providers of `scope` are the ones not skipped
InitMain ==
    /\ store = [p \in Providers |-> NoRow]
    /\ scope \in SUBSET Providers
    /\ env \in EnvsOf(scope)
    /\ now = 0
    /\ run = IdleRun
    /\ tbl = [p \in Providers |-> {}]
    /\ rec = IdleRec
    /\ mn = IdleMain
    /\ boot = IdleBoot
    /\ web = IdleWeb
    /\ job = IdleJob

\* the dictionary sync_strava / sync_ticktick returned
ResultOf(r) ==
    [present |-> TRUE, status |-> r.status, errors |-> r.errors,
     synced |-> r.synced]

\* variant: failure when every provider that ran failed
FinalStatus_EveryEnabled(overall, res) ==
    IF /\ \E p \in Providers : res[p].present
       /\ \A p \in Providers : res[p].present => res[p].status = "error"
    THEN "failure"
    ELSE overall

\* "Check if both failed": both results exist and both have status error
FinalStatus(overall, res) ==
    IF /\ res["strava"].present /\ res["strava"].status = "error"
       /\ res["ticktick"].present /\ res["ticktick"].status = "error"
    THEN "failure"
    ELSE overall

\* variant: the codes of failure and partial_failure are exchanged
ExitCode_Swapped(overall) ==
    IF overall = "failure" THEN 2
    ELSE IF overall = "partial_failure" THEN 1
    ELSE 0

\* "Exit with appropriate code"
ExitCode(overall) ==
    IF overall = "failure" THEN 1
    ELSE IF overall = "partial_failure" THEN 2
    ELSE 0

\* variant: a provider's error leaves the overall status as it was
StatusAfter_Unchanged(overall, result) ==
    overall

\* after one provider's result: an error makes the run a partial failure
StatusAfter(overall, result) ==
    IF result.status = "error" THEN "partial_failure" ELSE overall

\* parse_args; --init-db whose init_schema raises exits 1 at once; else
\* all_results is created
MainStart ==
    /\ mn.pc = "idle"
    /\ \/ mn' = [IdleMain EXCEPT !.pc = "exited", !.code = 1]
       \/ mn' = [IdleMain EXCEPT !.pc = "strava", !.overall = "success",
                                 !.skip = [p \in Providers |-> p \notin scope]]
    /\ UNCHANGED <<store, env, now, run, scope, tbl, rec, boot, web, job>>

\* `if not args.skip_strava`: sync_strava is called
MainSyncStrava ==
    /\ mn.pc = "strava"
    /\ IF mn.skip["strava"]
       THEN /\ mn' = [mn EXCEPT !.pc = "ticktick"]
            /\ UNCHANGED run
       ELSE /\ mn' = [mn EXCEPT !.pc = "strava_run"]
            /\ run' = BeginAcquisition([IdleRun EXCEPT !.p = "strava"],
                                       "sv_rt", "activities")
    /\ UNCHANGED <<store, env, now, scope, tbl, rec, boot, web, job>>

\* variant: an error result of sync_strava ends the process at once
MainStravaDone_ExitsOnError ==
    /\ mn.pc = "strava_run"
    /\ run.pc = "done"
    /\ mn' = IF run.status = "error"
             THEN [mn EXCEPT !.res["strava"] = ResultOf(run),
                             !.overall = "failure", !.code = 1,
                             !.atEnd = TRUE, !.pc = "exited"]
             ELSE [mn EXCEPT !.res["strava"] = ResultOf(run),
                             !.overall = StatusAfter(@, run),
                             !.pc = "ticktick"]
    /\ run' = IdleRun
    /\ UNCHANGED <<store, env, now, scope, tbl, rec, boot, web, job>>

\* sync_strava returned its result
MainStravaDone ==
    /\ mn.pc = "strava_run"
    /\ run.pc = "done"
    /\ mn' = [mn EXCEPT !.res["strava"] = ResultOf(run),
                        !.overall = StatusAfter(@, run),
                        !.last = "none", !.rested = FALSE,
                        !.pc = "ticktick"]
    /\ run' = IdleRun
    /\ UNCHANGED <<store, env, now, scope, tbl, rec, boot, web, job>>

\* `if not args.skip_ticktick`: sync_ticktick(args.ticktick_projects)
MainSyncTickTick ==
    /\ mn.pc = "ticktick"
    /\ IF mn.skip["ticktick"]
       THEN /\ mn' = [mn EXCEPT !.pc = "check"]
            /\ UNCHANGED run
       ELSE /\ mn' = [mn EXCEPT !.pc = "ticktick_run"]
            /\ \/ \E n \in 1..MaxProjects :
                      run' = [IdleRun EXCEPT !.p = "ticktick",
                                             !.pc = "tt_next",
                                             !.projLeft = n]
               \/ run' = BeginAcquisition([IdleRun EXCEPT !.p = "ticktick"],
                                          "hd_read", "list")
    /\ UNCHANGED <<store, env, now, scope, tbl, rec, boot, web, job>>

\* sync_ticktick returned its result
MainTickTickDone ==
    /\ mn.pc = "ticktick_run"
    /\ run.pc = "done"
    /\ mn' = [mn EXCEPT !.res["ticktick"] = ResultOf(run),
                        !.overall = StatusAfter(@, run),
                        !.last = "none", !.rested = FALSE,
                        !.pc = "check"]
    /\ run' = IdleRun
    /\ UNCHANGED <<store, env, now, scope, tbl, rec, boot, web, job>>

\* the both-failed check, the summary and sys.exit
MainExit ==
    /\ mn.pc = "check"
    /\ LET final == FinalStatus(mn.overall, mn.res)
       IN  mn' = [mn EXCEPT !.overall = final, !.code = ExitCode(final),
                            !.atEnd = TRUE, !.pc = "exited"]
    /\ UNCHANGED <<store, env, now, run, scope, tbl, rec, boot, web, job>>

MainNext ==
    \/ MainStart \/ MainSyncStrava \/ MainStravaDone
    \/ MainSyncTickTick \/ MainTickTickDone \/ MainExit
    \/ StravaReadRefreshToken \/ StravaTokenRequest
    \/ StravaPersist \/ StravaReturn \/ StravaPage \/ StravaUpsert
    \/ HeadersReadCache \/ RefreshReadRefreshToken
    \/ RefreshTokenRequest \/ RefreshPersist \/ RefreshReturn
    \/ TickTickRequest \/ TickTickUpsert \/ TickTickNextProject

MainSpec == InitMain /\ [][MainNext]_vars

----------------------------------------------------------------------------
(* Process start: init_schema of app/db.py and its three callers.  The     *)
(* connection is opened with autocommit=False, so the DDL runs inside a    *)
(* transaction; the server rejects every statement of a transaction after  *)
(* one of them failed, until that transaction is rolled back.              *)

\* the callers of init_schema
Callers == {"api", "mcp", "cli"}

\* `for i in range(3)`
Attempts == 3

\* time.sleep(0.5 * (i + 1)), in tenths of a second
Backoff(i) == 5 * (i + 1)

InitApp ==
    /\ store = [p \in Providers |-> NoRow]
    /\ scope = {"strava"}
    /\ env \in EnvsOf(scope)
    /\ now = 0
    /\ run = IdleRun
    /\ tbl = [p \in Providers |-> {}]
    /\ rec = IdleRec
    /\ mn = IdleMain
    /\ boot = IdleBoot
    /\ web = IdleWeb
    /\ job = IdleJob

\* a process starts and calls init_schema; its backend is cold or warm
BootStart ==
    /\ boot.pc = "off"
    /\ \E c \in Callers, w \in BOOLEAN :
           boot' = [IdleBoot EXCEPT !.caller = c, !.warm = w,
                                    !.pc = "connect"]
    /\ UNCHANGED <<store, env, now, run, scope, tbl, rec, mn, web, job>>

\* the backend finishes its cold start
BackendWarms ==
    /\ boot.pc \in {"connect", "execute", "sleep"}
    /\ ~boot.warm
    /\ boot' = [boot EXCEPT !.warm = TRUE]
    /\ UNCHANGED <<store, env, now, run, scope, tbl, rec, mn, web, job>>

\* db(): conn = connect(), outside the retry loop: it returns a connection
\* or raises out of init_schema
SchemaConnect ==
    /\ boot.pc = "connect"
    /\ \/ boot' = [boot EXCEPT !.conn = "open", !.txn = "idle",
                                !.connects = @ + 1, !.pc = "execute"]
       \/ boot' = [boot EXCEPT !.connects = @ + 1, !.pc = "raised"]
    /\ UNCHANGED <<store, env, now, run, scope, tbl, rec, mn, web, job>>

\* the with-block is left by an exception: rollback, raise, close
SchemaRaised(b) ==
    [b EXCEPT !.pc = "raised", !.conn = "closed", !.txn = "none",
              !.rolledBack = TRUE]

\* one turn of the loop: cur.execute(stmt) on the same connection; success
\* breaks, the third failure is re-raised, an earlier one goes to the sleep
SchemaExecute ==
    /\ boot.pc = "execute"
    /\ LET b1 == [boot EXCEPT
                    !.tries = @ + 1,
                    !.warmAt = IF boot.warm THEN @ \cup {boot.i + 1} ELSE @]
       IN  boot' = IF boot.warm /\ boot.txn # "inerror"
                   THEN [b1 EXCEPT !.txn = "intrans", !.pc = "commit"]
                   ELSE IF boot.i = Attempts - 1
                        THEN SchemaRaised([b1 EXCEPT !.fails = @ + 1])
                        ELSE [b1 EXCEPT !.txn = "inerror", !.fails = @ + 1,
                                        !.pc = "sleep"]
    /\ UNCHANGED <<store, env, now, run, scope, tbl, rec, mn, web, job>>

\* variant: each attempt runs in a db() scope of its own
SchemaSleep_Reconnects ==
    /\ boot.pc = "sleep"
    /\ boot' = [boot EXCEPT !.slept = Append(@, Backoff(boot.i)),
                            !.i = @ + 1, !.pc = "execute",
                            !.txn = "idle", !.rolledBack = TRUE,
                            !.connects = @ + 1]
    /\ UNCHANGED <<store, env, now, run, scope, tbl, rec, mn, web, job>>

\* time.sleep(0.5 * (i + 1)), then the next turn
SchemaSleep ==
    /\ boot.pc = "sleep"
    /\ boot' = [boot EXCEPT !.slept = Append(@, Backoff(boot.i)),
                            !.i = @ + 1, !.pc = "execute"]
    /\ UNCHANGED <<store, env, now, run, scope, tbl, rec, mn, web, job>>

\* the with-blocks end: conn.commit() and close, or the commit raises
SchemaCommit ==
    /\ boot.pc = "commit"
    /\ \/ boot' = [boot EXCEPT !.schema = TRUE, !.conn = "closed",
                                !.txn = "none", !.pc = "returned"]
       \/ boot' = SchemaRaised([boot EXCEPT !.commitErr = TRUE])
    /\ UNCHANGED <<store, env, now, run, scope, tbl, rec, mn, web, job>>

\* max(1, int(interval))
Minutes(setting) == IF setting > 1 THEN setting ELSE 1

\* the first turn of `while True` of a new periodic task
PeriodicBegun(wb) ==
    [wb EXCEPT !.w["periodic"] = [IdleWorker EXCEPT !.pc = "rt"],
               !.active = @ + 1, !.runs = @ + 1, !.lasted = 0, !.timer = 0]

\* init_schema returned: the process goes on; on_startup creates the
\* periodic task when STRAVA_SYNC_INTERVAL_MINUTES is set
BootReturned ==
    /\ boot.pc = "returned"
    /\ boot.process = "starting"
    /\ boot' = [boot EXCEPT !.process = "serving"]
    /\ IF boot.caller = "api"
       THEN \/ web' = IdleWeb
            \/ \E setting \in 0..MaxInterval :
                   web' = PeriodicBegun(
                              [IdleWeb EXCEPT !.minutes = Minutes(setting)])
       ELSE web' = IdleWeb
    /\ UNCHANGED <<store, env, now, run, scope, tbl, rec, mn, job>>

\* init_schema raised: on_startup lets it propagate and the startup fails,
\* sync_all logs it and exits 1, the MCP server prints a warning and goes on
BootRaised ==
    /\ boot.pc = "raised"
    /\ boot.process = "starting"
    /\ boot' = [boot EXCEPT !.process = IF boot.caller = "mcp"
                                        THEN "serving" ELSE "aborted"]
    /\ UNCHANGED <<store, env, now, run, scope, tbl, rec, mn, web, job>>

----------------------------------------------------------------------------
(* The serving API process: _periodic_strava_sync runs on the event loop,  *)
(* the handler of POST /sync/strava in a thread of the pool; both call     *)
(* fetch_all_activities -> strava_access_token, with no lock around the    *)
(* read, the token request and the write.                                  *)

Serving == boot.process = "serving" /\ boot.caller = "api"

\* the token answers of this process: access_token, optional refresh_token
WorkerAnswers == {a \in StravaAnswers(now) : a.exp = NullTime}

\* a worker's sync is over, by return or by exception: the handler answers
\* (200 or 500), the periodic task prints and goes to asyncio.sleep
WorkerEnded(wb, x) ==
    IF x = "periodic"
    THEN [wb EXCEPT !.w[x] = [IdleWorker EXCEPT !.pc = "sleep"],
                    !.active = @ - 1, !.timer = 0, !.lasted = 0,
                    !.failed = FALSE]
    ELSE [wb EXCEPT !.w[x] = IdleWorker]

\* variant: the periodic task has no except clause, an exception ends it
WorkerRaised_StopsLoop(wb, x) ==
    IF x = "periodic"
    THEN [wb EXCEPT !.w[x] = IdleWorker, !.active = @ - 1, !.failed = TRUE]
    ELSE [wb EXCEPT !.w[x] = IdleWorker]

\* the sync raised: `except Exception` of the periodic task prints, and the
\* task goes to asyncio.sleep as after a run that returned; the handler
\* answers 500
WorkerRaised(wb, x) ==
    IF x = "periodic"
    THEN [WorkerEnded(wb, x) EXCEPT !.failed = TRUE]
    ELSE WorkerEnded(wb, x)

\* a client posts /sync/strava
ManualRequest ==
    /\ Serving
    /\ web.w["manual"].pc = "idle"
    /\ web' = [web EXCEPT !.w["manual"].pc = "rt"]
    /\ UNCHANGED <<store, env, now, run, scope, tbl, rec, mn, boot, job>>

\* rt = get_refresh_token() or env; none raises
WorkerReadRefreshToken(x) ==
    /\ Serving
    /\ web.w[x].pc = "rt"
    /\ LET rt == RefreshTokenToSend("strava")
       IN  web' = IF Truthy(rt)
                  THEN [web EXCEPT !.w[x].rt = rt, !.w[x].pc = "post"]
                  ELSE WorkerRaised(web, x)
    /\ UNCHANGED <<store, env, now, run, scope, tbl, rec, mn, boot, job>>

\* requests.post(STRAVA_OAUTH_TOKEN) with the token read: an error raises,
\* a 2xx answer may carry a newly issued refresh token
WorkerTokenRequest(x) ==
    /\ Serving
    /\ web.w[x].pc = "post"
    /\ \/ web' = WorkerRaised(web, x)
       \/ \E a \in WorkerAnswers :
              web' = [web EXCEPT !.w[x].pay = a, !.w[x].pc = "save",
                                 !.issued = IF Truthy(a.rt) THEN a.rt ELSE @]
    /\ UNCHANGED <<store, env, now, run, scope, tbl, rec, mn, boot, job>>

\* save_refresh_token inside db(), then return payload["access_token"]
WorkerPersist(x) ==
    /\ Serving
    /\ web.w[x].pc = "save"
    /\ \/ /\ store' = [store EXCEPT !["strava"] =
                           StravaRowToSave(@, web.w[x].rt, web.w[x].pay)]
          /\ web' = [web EXCEPT !.w[x].pc = "fetch"]
       \/ /\ web' = WorkerRaised([web EXCEPT !.saveFailed = TRUE], x)
          /\ UNCHANGED store
    /\ UNCHANGED <<env, now, run, scope, tbl, rec, mn, boot, job>>

\* the pages of fetch_all_activities: the list, or an exception
WorkerFetch(x) ==
    /\ Serving
    /\ web.w[x].pc = "fetch"
    /\ \/ web' = [web EXCEPT !.w[x].pc = "upsert"]
       \/ web' = WorkerRaised(web, x)
    /\ UNCHANGED <<store, env, now, run, scope, tbl, rec, mn, boot, job>>

\* upsert_activities(rows): the count, or an exception
WorkerUpsert(x) ==
    /\ Serving
    /\ web.w[x].pc = "upsert"
    /\ \/ web' = WorkerEnded(web, x)
       \/ web' = WorkerRaised(web, x)
    /\ UNCHANGED <<store, env, now, run, scope, tbl, rec, mn, boot, job>>

\* variant: a timer starts a run every interval, finished or not
PeriodicWake_FixedRate ==
    /\ Serving
    /\ web.minutes > 0
    /\ web.runs < MaxRuns
    /\ \/ web.w["periodic"].pc = "sleep" /\ web.timer = web.minutes
       \/ web.w["periodic"].pc # "sleep" /\ web.lasted >= web.minutes
    /\ web' = PeriodicBegun(web)
    /\ UNCHANGED <<store, env, now, run, scope, tbl, rec, mn, boot, job>>

\* await asyncio.sleep(minutes * 60) returns: the next turn of `while True`
PeriodicWake ==
    /\ Serving
    /\ web.w["periodic"].pc = "sleep"
    /\ web.timer = web.minutes
    /\ web.runs < MaxRuns
    /\ web' = PeriodicBegun(web)
    /\ UNCHANGED <<store, env, now, run, scope, tbl, rec, mn, boot, job>>

\* a minute passes: of the sleep, or of the periodic run in progress
MinutePasses ==
    /\ Serving
    /\ web.minutes > 0
    /\ IF web.w["periodic"].pc = "sleep"
       THEN /\ web.timer < web.minutes
            /\ web' = [web EXCEPT !.timer = @ + 1]
       ELSE /\ web.lasted < MaxRunTime
            /\ web' = [web EXCEPT
                         !.lasted = @ + 1,
                         !.overran = @ \/ web.lasted + 1 > web.minutes]
    /\ UNCHANGED <<store, env, now, run, scope, tbl, rec, mn, boot, job>>

AppNext ==
    \/ BootStart \/ BackendWarms \/ SchemaConnect \/ SchemaExecute
    \/ SchemaSleep \/ SchemaCommit \/ BootReturned \/ BootRaised
    \/ ManualRequest
    \/ \E x \in Workers : WorkerReadRefreshToken(x)
    \/ \E x \in Workers : WorkerTokenRequest(x)
    \/ \E x \in Workers : WorkerPersist(x)
    \/ \E x \in Workers : WorkerFetch(x)
    \/ \E x \in Workers : WorkerUpsert(x)
    \/ PeriodicWake \/ MinutePasses

AppSpec == InitApp /\ [][AppNext]_vars

\* time passes, and the event loop resumes a task whose sleep is over
AppLiveSpec ==
    AppSpec /\ WF_vars(MinutePasses) /\ WF_vars(PeriodicWake)

----------------------------------------------------------------------------
(* Properties                                                              *)

\* the current token acquisition has read the credential row
HasRead == run.seenNow # NullTime

\* the current token acquisition is over: a token came back, or it raised
AcqEnded == run.via # "none" \/ run.raised

\* the row read holds an access token whose expiry is later than the clock
SeenFresh ==
    /\ HasRead /\ run.seen.present /\ Truthy(run.seen.at)
    /\ run.seen.exp # NullTime /\ run.seen.exp > run.seenNow

\* the row read holds an access token and a null expiry
SeenNoExpiry ==
    /\ HasRead /\ run.seen.present /\ Truthy(run.seen.at)
    /\ run.seen.exp = NullTime

\* the row read holds an expiry earlier than the clock
SeenExpired ==
    /\ HasRead /\ run.seen.present
    /\ run.seen.exp # NullTime /\ run.seen.exp < run.seenNow

\* a refresh token is available: in the row read, or in the environment
SeenRefreshToken ==
    Truthy(get_refresh_token(run.seen)) \/ Truthy(env.rt[run.p])

\* C1 as stated: for every provider, a stored access token with an expiry
\* later than now is returned as it is, with no call to the token endpoint.
C1_EveryProviderUsesFreshCache ==
    (SeenFresh /\ AcqEnded) =>
        (run.token = run.seen.at /\ run.posts = 0)

\* C1 amended: TickTick's headers() returns a stored access token whose
\* expiry is later than now, with no call to the token endpoint; Strava's
\* strava_access_token does not consult the stored access token and calls
\* the token endpoint once even then.
C1_FreshCache ==
    /\ (run.p = "ticktick" /\ SeenFresh) =>
           (run.via = "cache" /\ run.token = run.seen.at /\ run.posts = 0)
    /\ (run.p = "strava" /\ SeenFresh /\ AcqEnded) => run.posts = 1

C1_Witness ==
    /\ run.p = "ticktick" /\ run.pc = "tt_get" /\ SeenFresh
    /\ run.via = "cache" /\ run.token = run.seen.at

\* C2: with a stored expiry earlier than now and a refresh token available,
\* one token acquisition sends exactly one request to the token endpoint;
\* no acquisition ever sends more than one.
C2_ExpiredRefreshesOnce ==
    /\ run.posts <= 1
    /\ (SeenExpired /\ SeenRefreshToken /\ AcqEnded) => run.posts = 1

C2_Witness ==
    /\ run.p = "ticktick" /\ SeenExpired /\ SeenRefreshToken
    /\ run.via = "refresh" /\ run.posts = 1

\* C3 as stated: for every provider, a stored access token with a null
\* expiry is returned without calling the refresh endpoint.
C3_EveryProviderTrustsNullExpiry ==
    (SeenNoExpiry /\ AcqEnded) =>
        (run.token = run.seen.at /\ run.posts = 0)

\* C3 amended: TickTick's headers() returns a stored access token with a null
\* expiry without calling the refresh endpoint; Strava's strava_access_token
\* calls the refresh endpoint once even then.
C3_NullExpiryTrusted ==
    /\ (run.p = "ticktick" /\ SeenNoExpiry) =>
           (run.via = "cache" /\ run.token = run.seen.at /\ run.posts = 0)
    /\ (run.p = "strava" /\ SeenNoExpiry /\ AcqEnded) => run.posts = 1

C3_Witness ==
    /\ run.p = "ticktick" /\ run.pc = "tt_get" /\ SeenNoExpiry
    /\ run.via = "cache" /\ run.token = run.seen.at

\* the step that commits the answer of a successful refresh
RefreshCommitted ==
    \/ run.pc = "sv_save" /\ run'.pc = "sv_ret"
    \/ run.pc = "rf_save" /\ run'.pc = "rf_ret"

\* C4 as stated: after a successful refresh, a refresh_token in the answer
\* that differs from the one sent is the stored one; when the answer omits
\* it, the stored refresh_token is the same as before the call, also when
\* the token sent came from the environment.
C4_OmittedLeavesStoreAsBefore ==
    [][RefreshCommitted =>
        /\ (Truthy(run.pay.rt) /\ run.pay.rt # run.rt) =>
               store'[run.p].rt = run.pay.rt
        /\ ~Truthy(run.pay.rt) =>
               get_refresh_token(store'[run.p]) =
                   get_refresh_token(store[run.p])]_vars

\* C4 amended: after a successful refresh, a refresh_token in the answer
\* that differs from the one sent is the stored one; when the answer omits
\* it, the stored refresh_token is the one that was sent: unchanged when the
\* store held one, the environment's fallback token when it held none.
C4_Rotation ==
    [][RefreshCommitted =>
        /\ (Truthy(run.pay.rt) /\ run.pay.rt # run.rt) =>
               store'[run.p].rt = run.pay.rt
        /\ ~Truthy(run.pay.rt) =>
               /\ store'[run.p].rt = run.rt
               /\ Truthy(get_refresh_token(store[run.p])) =>
                      store'[run.p].rt = get_refresh_token(store[run.p])
               /\ ~Truthy(get_refresh_token(store[run.p])) =>
                      store'[run.p].rt = env.rt[run.p]]_vars

C4_Witness ==
    /\ run.pc = "sv_ret" /\ ~Truthy(run.pay.rt)
    /\ ~run.seen.present /\ store["strava"].rt = EnvRToken

\* C5: whenever a refresh has returned its new access token, and so before
\* any resource request carries it, the row holding that token, its expiry
\* and the refresh token to use next (the rotated one if the answer carried
\* one) has been committed to the store.
C5_PersistedBeforeReturn ==
    run.via = "refresh" =>
        /\ run.wrote.present
        /\ store[run.p] = run.wrote
        /\ run.wrote.at = run.token
        /\ run.wrote.rt = IF Truthy(run.pay.rt) THEN run.pay.rt ELSE run.rt
        /\ run.tokReqs = 0

C5_Witness ==
    /\ run.via = "refresh" /\ run.pc = "tt_get"
    /\ Truthy(run.pay.rt) /\ run.pay.rt # run.rt
    /\ store["ticktick"].rt = run.pay.rt

\* C6: when the token endpoint rejects a refresh or the request raises, the
\* provider's credential row is what it was when the attempt began: nothing
\* was written.
C6_FailedRefreshLeavesRow ==
    run.answer = "fail" =>
        (store[run.p] = run.seen /\ ~run.wrote.present)

C6_Witness ==
    /\ run.answer = "fail" /\ run.seen.present /\ Truthy(run.seen.at)
    /\ store[run.p] = run.seen

\* C7 as stated: a sync in which a token refresh failed issued no resource
\* request and ends with status error.
C7_RefreshFailureAbandonsSync ==
    (run.pc = "done" /\ run.rfFail # "none") =>
        (run.resReqs = 0 /\ run.status = "error")

\* C7 amended: a Strava sync whose token refresh failed, and a TickTick sync
\* whose token refresh failed for the project-list request with no
\* TICKTICK_ACCESS_TOKEN to fall back on, issued no resource request and ends
\* with status error; a TickTick refresh that fails first for one project's
\* data request leaves the status success (without the fallback token that
\* project is skipped and recorded in errors).
C7_TokenFailureAbandonsSync ==
    run.pc = "done" =>
        /\ (run.p = "strava" /\ run.rfFail # "none") =>
               (run.resReqs = 0 /\ run.status = "error")
        /\ (run.p = "ticktick" /\ run.rfFail = "list" /\ ~Truthy(env.at)) =>
               (run.resReqs = 0 /\ run.status = "error")
        /\ (run.p = "ticktick" /\ run.rfFail = "data") =>
               /\ run.status = "success"
               /\ ~Truthy(env.at) => run.errors >= 1

C7_Witness ==
    /\ run.pc = "done" /\ run.p = "ticktick" /\ run.rfFail = "list"
    /\ run.answer = "fail" /\ run.resReqs = 0 /\ run.status = "error"

\* C8 as stated: with no refresh token in the store nor in the environment,
\* obtaining an access token fails, with no token-endpoint request and no
\* resource request.
C8_NoRefreshTokenAlwaysFails ==
    (HasRead /\ ~SeenRefreshToken /\ AcqEnded) =>
        (run.raised /\ run.posts = 0 /\ run.tokReqs = 0)

\* C8 amended: with no refresh token in the store nor in the environment, no
\* token-endpoint request is sent; strava_access_token fails before any
\* network call; TickTick's headers() returns the stored access token when
\* that is still valid, else TICKTICK_ACCESS_TOKEN when set, and only
\* otherwise fails with no resource request issued.
C8_NoRefreshToken ==
    (HasRead /\ ~SeenRefreshToken) =>
        /\ run.posts = 0
        /\ (run.p = "strava" /\ AcqEnded) =>
               (run.raised /\ run.tokReqs = 0 /\ run.resReqs = 0)
        /\ (run.p = "ticktick" /\ AcqEnded) =>
               IF CacheValid(run.seen.at, run.seen.exp, run.seenNow)
               THEN run.via = "cache" /\ run.token = run.seen.at
               ELSE IF Truthy(env.at)
                    THEN run.via = "env" /\ run.token = env.at
                    ELSE run.raised /\ run.tokReqs = 0

C8_Witness ==
    /\ run.p = "ticktick" /\ HasRead /\ ~SeenRefreshToken
    /\ run.raised /\ run.noRT /\ run.posts = 0

\* a step of save_refresh_token or save_tokens
CredentialSaved ==
    StravaPersist \/ RefreshPersist \/ ExchangeStrava \/ ExchangeTickTick

\* C9: a save_refresh_token / save_tokens write never replaces a stored
\* non-null refresh token, access token or expiry by null.
C9_SaveNeverNullsAField ==
    [][CredentialSaved =>
        \A p \in Providers :
            (store[p].present /\ store'[p].present) =>
                /\ Truthy(store[p].rt) => Truthy(store'[p].rt)
                /\ Truthy(store[p].at) => Truthy(store'[p].at)
                /\ store[p].exp # NullTime => store'[p].exp # NullTime]_vars

\* C10: reset_refresh_token with a replacement leaves a row holding the
\* replacement with a null access token and a null expiry; with no token it
\* leaves no row.
C10_ResetClearsAccess ==
    [][/\ \A new \in {Null} \cup RTokens :
              ResetStravaWith(new) =>
                  store'["strava"] =
                      IF Truthy(new) THEN Row(new, Null, NullTime) ELSE NoRow
       /\ \A new \in {Null} \cup RTokens :
              ResetTickTickWith(new) =>
                  store'["ticktick"] =
                      IF Truthy(new) THEN Row(new, Null, NullTime) ELSE NoRow
      ]_vars

\* the TickTick credential holds an access token and no expiry
NullExpiryCredential ==
    /\ store["ticktick"].present
    /\ Truthy(store["ticktick"].at)
    /\ store["ticktick"].exp = NullTime

\* the step commits a refresh answer that carries no expires_in
CommitsAnswerWithoutExpiry ==
    /\ run.pc = "rf_save" /\ run'.pc = "rf_ret"
    /\ Truthy(run.pay.at) /\ run.pay.exp = NullTime

\* C34: a TickTick refresh answered without expires_in stores its access
\* token with a null expiry; while the credential holds an access token and
\* a null expiry, every headers() call returns that token from the cache
\* with no request to the token endpoint, at any clock time, and the
\* credential is changed by nothing but a reset or a code exchange.
C34_NullExpiryCachedUntilChanged ==
    [][/\ CommitsAnswerWithoutExpiry =>
              /\ store'["ticktick"].at = run.pay.at
              /\ store'["ticktick"].exp = NullTime
              /\ store'["ticktick"].present
       /\ (NullExpiryCredential /\ run.pc = "hd_read" /\ run' # run) =>
              /\ run'.pc = "tt_get" /\ run'.via = "cache"
              /\ run'.token = store["ticktick"].at
              /\ run'.posts = 0
              /\ store' = store
       /\ (NullExpiryCredential /\ store' # store) =>
              (ResetTickTick \/ ExchangeTickTick)
      ]_vars

\* a refresh answered without expires_in has just been committed, after
\* the stored token had expired, and the row holds its token and no expiry
C34_Witness ==
    /\ run.p = "ticktick" /\ run.pc = "rf_ret"
    /\ run.pay.exp = NullTime /\ run.wrote = store["ticktick"]
    /\ NullExpiryCredential
    /\ run.seen.present /\ run.seen.exp # NullTime
    /\ store["ticktick"].at = run.pay.at

----------------------------------------------------------------------------
(* Properties of the record-level sync                                     *)

\* the columns of a table without the stamp
Content(table) ==
    {[id |-> x.id, name |-> x.name, json |-> x.json,
      start_date |-> x.start_date, raw |-> x.raw] : x \in table}

\* the rows of `table` with primary key id
RowsOf(table, id) == {x \in table : x.id = id}

\* rows[i] is the last record of the batch with its id
LastOfItsId(rows, i) ==
    \A j \in (i + 1)..Len(rows) : rows[j].id # rows[i].id

\* the table after the first n records of the batch were written to it
RECURSIVE WrittenPrefix(_, _, _, _, _)
WrittenPrefix(p, table, rows, n, t) ==
    IF n = 0
    THEN table
    ELSE upsert_row(WrittenPrefix(p, table, rows, n - 1, t),
                    DeriveRow(p, rows[n], t))

\* the records of a sequence of pages, in page order
RECURSIVE Flatten(_)
Flatten(pages) ==
    IF pages = <<>> THEN <<>> ELSE Head(pages) \o Flatten(Tail(pages))

\* upsert_* returned normally after writing at least one record
UpsertDone == rec.pc = "done" /\ rec.ok /\ rec.rows # <<>>

\* fetch_all_activities has just returned its list
FetchReturned == rec.pc = "upsert" /\ rec.p = "strava" /\ ~rec.again

\* C11: an upsert run twice with the same input leaves the rows the first
\* run left, one row per id; and after any run the stored value of a field
\* is the one of that run's record.
C11_UpsertIdempotent ==
    /\ \A p \in Providers : \A x, y \in tbl[p] : x.id = y.id => x = y
    /\ (UpsertDone /\ rec.again) =>
           /\ Content(tbl[rec.p]) = Content(rec.before)
           /\ Cardinality(tbl[rec.p]) = Cardinality(rec.before)
    /\ UpsertDone =>
           \A i \in 1..Len(rec.rows) :
               LastOfItsId(rec.rows, i) =>
                   \A x \in RowsOf(tbl[rec.p], rec.rows[i].id) :
                       x.name = rec.rows[i].name

\* the second of two runs with the same input has committed, after the
\* clock moved: it rewrote a row the first run had written
C11_Witness ==
    /\ UpsertDone /\ rec.again
    /\ \E x \in rec.before : \E y \in tbl[rec.p] :
           x.id = y.id /\ x.last_synced_at < y.last_synced_at

\* the row of the batch's last record with the id of rows[i] is what the
\* table holds for that id, given the value a missing JSON key is stored as
StoredAsIncoming(i, missing) ==
    LET r == rec.rows[i]
    IN  RowsOf(tbl[rec.p], r.id) =
            {[id |-> r.id, name |-> r.name,
              json |-> IF r.json = Null THEN missing ELSE r.json,
              start_date |-> Null,
              raw |-> r, last_synced_at |-> rec.t0]}

C13_PrefixStaysCommitted ==
    rec.failedAt > 0 =>
        tbl[rec.p] = WrittenPrefix(rec.p, rec.before, rec.rows,
                                   rec.failedAt - 1, rec.t0)

\* C13: when upsert_* raises, at the write of record k or at the commit,
\* the table holds exactly the rows it held before the call.
C13_BatchRolledBack ==
    (rec.pc = "done" /\ rec.raised /\ rec.k > 0) => tbl[rec.p] = rec.before

\* the write of the second record failed after the first had been written
\* and would have changed the table
C13_Witness ==
    /\ rec.pc = "done" /\ rec.raised /\ rec.failedAt = 2
    /\ WrittenPrefix(rec.p, rec.before, rec.rows, 1, rec.t0) # rec.before

\* C14: an upsert that returns, returns the number of records passed to it,
\* 0 for an empty list.
C14_ReturnsInputLength ==
    (rec.pc = "done" /\ rec.ok) => rec.ret = Len(rec.rows)

\* a batch of two records with the same id was upserted
C14_Witness ==
    /\ UpsertDone
    /\ Len(rec.rows) = 2 /\ rec.rows[1].id = rec.rows[2].id

\* C15: when fetch_all_activities returns after N non-empty pages and an
\* empty one, the list is the records of the N pages in page order, and the
\* N+1 requests were for pages page_start, page_start+1, ...
C15_FetchReturnsAllPages ==
    FetchReturned =>
        /\ rec.rows = Flatten(rec.served)
        /\ Len(rec.reqs) = Len(rec.served) + 1
        /\ \A i \in 1..Len(rec.reqs) : rec.reqs[i] = rec.page_start + i - 1

\* a fetch from page 2 returned two different pages
C15_Witness ==
    /\ FetchReturned
    /\ rec.page_start = 2
    /\ Len(rec.served) = 2 /\ rec.served[1] # rec.served[2]

\* C16 as stated: page k+1 is requested only after the caller holds page k.
C16_PageRequestedWhenConsumed ==
    Len(rec.reqs) <= rec.handed + 1

\* C16: the fetch is eager: the caller holds no record while pages are
\* requested, and holds all of them only after the empty page was requested.
C16_FetchIsEager ==
    /\ rec.pc = "page" => rec.handed = 0
    /\ FetchReturned =>
           /\ rec.handed = Len(rec.served)
           /\ Len(rec.reqs) = rec.handed + 1

\* the second page has been requested and the caller holds nothing
C16_Witness ==
    /\ rec.pc = "page"
    /\ Len(rec.reqs) = 2 /\ rec.handed = 0

----------------------------------------------------------------------------
(* Properties of the fetch failures and of main                            *)

\* the first failed resource request of the sync in flight ("none": no
\* sync in flight, or none failed)
FetchFailure ==
    IF run.p \in Providers THEN mn.ffail[run.p] ELSE "none"

\* C17 as stated: after a resource request failed, the run issues no
\* further resource request.
C17_AnyFailureEndsRequests ==
    [][(FetchFailure # "none") => run'.resReqs <= run.resReqs]_vars

\* C17: after an activities page or the project list failed, the run is
\* over and issues no further resource request.
C17_AbortingFailureEndsRequests ==
    [][(FetchFailure \in {"activities", "list"}) =>
           /\ run.pc = "done"
           /\ run'.resReqs <= run.resReqs]_vars

\* the second activities page failed
C17_Witness ==
    FetchFailure = "activities" /\ run.resReqs = 2

\* main has reached its end and exited
MainEnded == mn.pc = "exited" /\ mn.atEnd

\* the providers not skipped, and those whose result has status error
Enabled == {p \in Providers : ~mn.skip[p]}
Failed == {p \in Providers : mn.res[p].present /\ mn.res[p].status = "error"}

\* B's sync returned status success
Succeeded(p) == mn.res[p].present /\ mn.res[p].status = "success"

\* the outcome the spec promises when A's fetch failed and B succeeded
Isolated(A, B) ==
    /\ mn.overall = "partial_failure"
    /\ mn.res[A].status = "error" /\ mn.res[A].errors >= 1
    /\ mn.res[B].status = "success"

\* C18 as stated: any failed resource fetch of A, with B successful, gives
\* partial_failure, A error with errors, B success.
C18_AnyFetchFailureIsolated ==
    MainEnded =>
        \A A \in Providers : \A B \in Providers \ {A} :
            (mn.ffail[A] # "none" /\ Succeeded(B)) => Isolated(A, B)

\* C18: a failed activities page or project list of A, with B successful,
\* gives partial_failure, A error with errors, B success; a failed task
\* fetch of one project leaves TickTick's status success with an error
\* recorded, and the overall status success when Strava succeeded.
C18_FetchFailureIsolated ==
    MainEnded =>
        /\ \A A \in Providers : \A B \in Providers \ {A} :
               (mn.ffail[A] \in {"activities", "list"} /\ Succeeded(B))
                   => Isolated(A, B)
        /\ mn.ffail["ticktick"] = "data" =>
               /\ mn.res["ticktick"].status = "success"
               /\ mn.res["ticktick"].errors >= 1
               /\ Succeeded("strava") => mn.overall = "success"

\* the project list failed after Strava had synced an activity
C18_Witness ==
    /\ MainEnded
    /\ mn.ffail["ticktick"] = "list"
    /\ Succeeded("strava") /\ mn.res["strava"].synced >= 1

\* C19 as stated: failure iff every enabled provider failed, partial_failure
\* iff one failed and one succeeded or was skipped, success otherwise.
C19_FailureIffEveryEnabledFailed ==
    MainEnded =>
        LET total == Enabled # {} /\ Failed = Enabled
            partial == /\ Failed # {}
                       /\ \/ \E p \in Providers : Succeeded(p)
                          \/ Enabled # Providers
        IN  /\ mn.overall = "failure" <=> total
            /\ mn.overall = "partial_failure" <=> partial
            /\ mn.overall = "success" <=> (~total /\ ~partial)

\* C19: failure iff both providers ran and both failed, partial_failure iff
\* one failed and not both ran and failed, success iff none failed.
C19_OverallStatus ==
    MainEnded =>
        /\ mn.overall = "failure" <=> Failed = Providers
        /\ mn.overall = "partial_failure" <=>
               (Failed # {} /\ Failed # Providers)
        /\ mn.overall = "success" <=> Failed = {}

\* Strava skipped, TickTick failed: the only enabled provider failed
C19_Witness ==
    /\ MainEnded
    /\ mn.skip["strava"] /\ Failed = {"ticktick"}

\* C20: a run that reaches the end of main exits 0 exactly when the overall
\* status is success, 2 exactly when partial_failure, 1 exactly when failure.
C20_ExitCodeMatchesStatus ==
    MainEnded =>
        /\ mn.code \in {0, 1, 2}
        /\ mn.code = 0 <=> mn.overall = "success"
        /\ mn.code = 2 <=> mn.overall = "partial_failure"
        /\ mn.code = 1 <=> mn.overall = "failure"

\* both providers failed and the process exited 1
C20_Witness ==
    MainEnded /\ Failed = Providers /\ mn.code = 1

\* main is past the Strava block / past the TickTick block
PastStrava == mn.pc \in {"ticktick", "ticktick_run", "check"} \/ MainEnded
PastTickTick == mn.pc = "check" \/ MainEnded

\* C21: whatever was raised inside sync_strava or sync_ticktick, main holds
\* a result record of every provider it did not skip once it is past that
\* provider's block; the record has status success or error, an error one
\* carries a message; the process never exits between the two syncs, so the
\* TickTick sync is attempted whatever the Strava sync gave.
C21_NoErrorEscapes ==
    /\ PastStrava => (~mn.skip["strava"] => mn.res["strava"].present)
    /\ PastTickTick => (~mn.skip["ticktick"] => mn.res["ticktick"].present)
    /\ \A p \in Providers :
           mn.res[p].present =>
               /\ mn.res[p].status \in {"success", "error"}
               /\ mn.res[p].status = "error" => mn.res[p].errors >= 1
    /\ (mn.pc = "exited" /\ ~mn.atEnd) =>
           \A p \in Providers : ~mn.res[p].present

\* the Strava acquisition raised, its sync returned an error record, and
\* the TickTick sync still ran to a result
C21_Witness ==
    /\ MainEnded
    /\ mn.res["strava"].present /\ mn.res["strava"].status = "error"
    /\ mn.res["strava"].errors = 1
    /\ mn.res["ticktick"].present /\ mn.res["ticktick"].synced >= 1

\* the primary keys stored in a table
IdsOf(table) == {x.id : x \in table}

\* C26: no step of a fetch or an upsert, committed or rolled back, removes
\* an id from strava_activities or ticktick_tasks.
C26_IdsOnlyGrow ==
    [][\A p \in Providers : IdsOf(tbl[p]) \subseteq IdsOf(tbl'[p])]_vars

\* a later sync of one record returned and the id of an earlier sync is
\* still stored
C26_Witness ==
    /\ rec.pc = "done" /\ rec.ok /\ Len(rec.rows) = 1
    /\ IdsOf(tbl[rec.p]) = Ids

\* the refresh persistence rule for a row written from answer a: the
\* access token and the expiry written are the answer's, the refresh token
\* is the answer's when it has one and the stored one otherwise
FollowsPersistenceRule(old, new, a, exp) ==
    /\ new.present
    /\ new.at = a.at
    /\ new.exp = exp
    /\ new.rt = IF Truthy(a.rt) THEN a.rt ELSE get_refresh_token(old)

\* C27: a successful code exchange of either provider persists the access
\* token and expiry of the answer, and changes the stored refresh token
\* only when the answer has one.
C27_ExchangeFollowsPersistenceRule ==
    [][/\ \A a \in StravaAnswers(now) :
              ExchangeStravaWith(a) =>
                  FollowsPersistenceRule(
                      store["strava"], store'["strava"], a,
                      save_refresh_token(NoRow, a.rt, a.at, a.exp).exp)
       /\ \A a \in TickTickAnswers :
              ExchangeTickTickWith(a) =>
                  FollowsPersistenceRule(
                      store["ticktick"], store'["ticktick"], a,
                      save_tokens(NoRow, now, a.rt, a.at, a.exp).exp)
      ]_vars

\* a use of db() by upsert_* is over
ScopeOver == rec.pc = "done" /\ rec.conn # "none"

\* C28 as stated: the connection ends closed, the work is committed iff the
\* body finished without raising, and an exception means rollback and raise.
C28_CommittedIffBodyFinished ==
    /\ rec.conn = "open" => rec.pc \in {"exec", "commit"}
    /\ ScopeOver =>
           /\ rec.conn = "closed"
           /\ rec.committed <=> rec.bodyOk
           /\ ~rec.bodyOk => (rec.rolledBack /\ rec.raised)

\* C28 amended: the connection ends closed; the work is committed iff the
\* body finished without raising and conn.commit() then returned; when the
\* body or the commit raised, the transaction is rolled back, the table is
\* as it was before, and the exception reaches the caller.
C28_ScopeCommitsOrRollsBack ==
    /\ rec.conn = "open" => rec.pc \in {"exec", "commit"}
    /\ ScopeOver =>
           /\ rec.conn = "closed"
           /\ rec.committed => rec.bodyOk
           /\ rec.committed <=> ~rec.raised
           /\ rec.committed <=> ~rec.rolledBack
           /\ rec.raised => tbl[rec.p] = rec.before
           /\ rec.committed =>
                  {rec.rows[i].id : i \in 1..Len(rec.rows)}
                      \subseteq IdsOf(tbl[rec.p])

\* the body finished, conn.commit() raised: rolled back over a table that
\* held a row
C28_Witness ==
    /\ ScopeOver /\ rec.bodyOk /\ rec.raised /\ rec.rolledBack
    /\ rec.conn = "closed" /\ tbl[rec.p] # {}

\* the step sends a resource request of the kind the sync sent last: the
\* next activities page, or the data of the next project
RepeatsRequest ==
    /\ run'.resReqs = run.resReqs + 1
    /\ \/ run.p = "strava" /\ mn.last = "activities"
       \/ run.p = "ticktick" /\ run.req = "data" /\ mn.last = "data"

\* C35: between two consecutive activity page requests, and between two
\* consecutive project data requests, of one sync the delay step has run.
C35_DelayBetweenRequests ==
    [][RepeatsRequest => mn.rested]_vars

----------------------------------------------------------------------------
(* Order of the steps inside one provider's sync                           *)

\* the step sends a resource request / hands records to upsert_*
SendsRequest == run'.resReqs > run.resReqs
UpsertsRecords == run'.synced > run.synced

\* C23: a resource request goes out only from the request statement, with
\* the access token its acquisition returned, and after a refresh only once
\* the refreshed row is committed; records are upserted only after the
\* response holding them arrived, and exactly those records.
C23_FetchAfterTokenUpsertAfterFetch ==
    [][/\ SendsRequest =>
              /\ run.pc \in {"sv_page", "tt_get"}
              /\ Truthy(run.token)
              /\ run.via = "refresh" =>
                     (run.wrote.present /\ store[run.p] = run.wrote)
              /\ (run.p = "ticktick" \/ run.resReqs = 0) =>
                     run.via \in {"cache", "refresh", "env"}
       /\ UpsertsRecords =>
              /\ run.pc \in {"sv_upsert", "tt_upsert"}
              /\ run.resReqs >= 1 /\ run.tokReqs >= 1
              /\ run'.synced - run.synced =
                     IF run.p = "strava" THEN run.fetched ELSE run.tasks
      ]_vars

\* a project's tasks were upserted after a refresh, its write and the request
C23_Witness ==
    /\ run.p = "ticktick" /\ run.pc = "tt_next"
    /\ run.synced >= 1 /\ run.resReqs >= 2
    /\ store["ticktick"].present /\ Truthy(store["ticktick"].at)

\* the Strava sync of main ended because the request for page k failed
PageFailed(k) ==
    /\ run.p = "strava" /\ run.pc = "done"
    /\ mn.ffail["strava"] = "activities"
    /\ run.resReqs = k

\* C29: when the request for page k >= 2 fails, sync_strava made no upsert
\* call, so nothing of pages 1..k-1 is written; its result has status error,
\* one message and 0 activities synced.
C29_FailedPageDiscardsEarlierPages ==
    \A k \in 2..(MaxPages + 1) :
        PageFailed(k) =>
            /\ run.fetched >= k - 1
            /\ run.synced = 0
            /\ run.status = "error" /\ run.errors = 1

\* page 2 failed after page 1 had brought a record
C29_Witness ==
    PageFailed(2) /\ run.fetched = 1 /\ run.synced = 0

\* the bodies get_project_tasks turns into an empty list
EmptyPayloads == {d \in DataPayloads : ~TruthyTasks(get_project_tasks(d))}

\* the step is inside one TickTick sync
InTickTickSync == run.p = "ticktick" /\ run'.p = "ticktick"

\* C30: a project whose answer holds no tasks changes neither tasks_synced,
\* projects_synced nor errors and the loop goes on, whatever the shape of
\* the empty answer; tasks_synced grows only when a project's upsert
\* succeeded, by the number of tasks fetched for that project.
C30_EmptyProjectContributesNothing ==
    [][/\ \A d \in EmptyPayloads :
              (run.pc = "tt_get" /\ TickTickDataAnswered(d)) =>
                  /\ run'.synced = run.synced
                  /\ run'.errors = run.errors
                  /\ run'.projects = run.projects
                  /\ run'.status = run.status
                  /\ run'.pc = "tt_next"
                  /\ run'.projLeft = run.projLeft - 1
       /\ InTickTickSync =>
              \/ run'.synced = run.synced
              \/ /\ run.pc = "tt_upsert"
                 /\ run'.synced = run.synced + run.tasks
                 /\ run'.errors = run.errors
      ]_vars

\* three requests (the list, two projects), one project synced a task, the
\* other had none, and no error is recorded
C30_Witness ==
    /\ run.p = "ticktick" /\ run.pc = "done"
    /\ run.resReqs = 3 /\ run.projects = 1 /\ run.synced = 1
    /\ run.errors = 0 /\ run.status = "success"

\* what the claim says get_project_tasks returns for payload d
Unwrapped(d) ==
    IF d.top = "list" THEN TaskList(d.n)
    ELSE IF d.tasks.t = "list" THEN d.tasks
    ELSE IF d.bean = "dict" /\ d.beanTasks.t # "absent" THEN d.beanTasks
    ELSE TaskList(0)

\* C36: whatever 2xx payload a project data request is answered with,
\* get_project_tasks returns the list the payload wraps (the payload, its
\* tasks, or its syncTaskBean's tasks), an empty list for any other shape,
\* and never a value that is not a list.
C36_AlwaysReturnsSequence ==
    [][(run.pc = "tt_get" /\ run.req = "data") =>
           \A d \in DataPayloads :
               TickTickDataAnswered(d) =>
                   /\ get_project_tasks(d) = Unwrapped(d)
                   /\ get_project_tasks(d).t = "list"
      ]_vars

----------------------------------------------------------------------------
(* Properties of the process start                                         *)

\* init_schema is over and its caller has acted on the outcome
BootOver == boot.process # "starting"

\* C22: init_schema makes at most 3 attempts and stops at the first
\* success, sleeps 0.5 s after the first failure and 1.0 s after the
\* second, a third failure aborts the start of the process, and a backend
\* that was cold for the first one or two attempts and warm for a later
\* one ends with the schema applied.
C22_RetriesAbsorbColdStart ==
    /\ boot.tries <= 3
    /\ boot.schema => boot.tries = boot.fails + 1
    /\ boot.slept \in {<<>>, <<5>>, <<5, 10>>}
    /\ (BootOver /\ boot.fails = 3) => boot.process = "aborted"
    /\ (BootOver /\ ~boot.commitErr /\
           (\E a \in boot.warmAt : a >= 2) /\ 1 \notin boot.warmAt)
           => boot.schema

\* C39: init_schema calls connect() once; when that raises, no attempt is
\* made and nothing is retried; every attempt runs on the one open
\* connection, in the transaction the first attempt began, which no commit
\* or rollback ends between attempts; the DDL is committed only when the
\* last attempt made succeeded, and the scope is rolled back and closed
\* when the third attempt or the commit raised.
C39_OneConnectionOneTransaction ==
    /\ boot.connects <= 1
    /\ boot.tries > 0 => boot.connects = 1
    /\ boot.pc \in {"execute", "sleep", "commit"} =>
           (boot.conn = "open" /\ ~boot.rolledBack /\ ~boot.schema)
    /\ (boot.pc = "sleep" \/ (boot.pc = "execute" /\ boot.tries > 0)) =>
           boot.txn = "inerror"
    /\ (boot.pc = "raised" /\ boot.conn = "none") =>
           (boot.connects = 1 /\ boot.tries = 0 /\ boot.slept = <<>>)
    /\ boot.schema =>
           /\ boot.tries = boot.fails + 1
           /\ ~boot.rolledBack /\ boot.conn = "closed"
    /\ (boot.pc = "raised" /\ boot.conn # "none") =>
           /\ boot.rolledBack /\ ~boot.schema /\ boot.conn = "closed"
           /\ boot.fails = Attempts \/ boot.commitErr

\* three attempts failed on the one connection, the last of them after the
\* backend had become warm; the scope was rolled back and closed
C39_Witness ==
    /\ boot.pc = "raised" /\ boot.tries = 3 /\ boot.fails = 3
    /\ boot.connects = 1 /\ boot.rolledBack /\ boot.conn = "closed"
    /\ 3 \in boot.warmAt /\ ~boot.schema

----------------------------------------------------------------------------
(* Properties of the serving process                                       *)

\* a periodic run begins in this step
PeriodicStarts == web'.runs > web.runs

\* C24: a periodic run begins only when no periodic run is in progress, and
\* after the first one only when the sleep that followed the previous run
\* is over, however long that run lasted.
C24_PeriodicNeverOverlaps ==
    [][PeriodicStarts =>
           /\ web.active = 0
           /\ web'.active = 1
           /\ web.runs > 0 =>
                  (web.w["periodic"].pc = "sleep" /\ web.timer = web.minutes)
      ]_vars

\* the second periodic run is in progress after one that outlasted the
\* interval
C24_Witness ==
    web.runs = 2 /\ web.overran /\ web.active = 1

\* no refresh is between its read and its write
NoRefreshInFlight ==
    \A x \in Workers : web.w[x].pc \notin {"post", "save"}

\* C25: when no refresh is in flight and no credential write has failed,
\* the stored Strava refresh token is the one the provider issued last.
C25_StoreHoldsLatestIssued ==
    (NoRefreshInFlight /\ ~web.saveFailed /\ Truthy(web.issued)) =>
        get_refresh_token(store["strava"]) = web.issued

----------------------------------------------------------------------------
(* Properties of the upsert of timestamped records                         *)

\* the timestamp field of the record is missing, empty or unparseable
BadStamp(r) == get(r, "start_date") \in {Null} \cup BadStamps

\* C31: when an upsert has returned, every record of the batch has a row,
\* and the row of a record whose timestamp field is missing, empty or
\* unparseable holds null in the timestamp column (the last record of an id
\* decides its row); a parseable text is stored as the instant it denotes.
C31_BadTimestampStoredAsNull ==
    UpsertDone =>
        \A i \in 1..Len(rec.rows) :
            /\ rec.rows[i].id \in IdsOf(tbl[rec.p])
            /\ LastOfItsId(rec.rows, i) =>
                   \A x \in RowsOf(tbl[rec.p], rec.rows[i].id) :
                       /\ x.raw = rec.rows[i]
                       /\ BadStamp(rec.rows[i]) => x.start_date = Null
                       /\ ~BadStamp(rec.rows[i]) =>
                              x.start_date \notin {Null} \cup Timestamps

\* a batch of a record without the field, one with an unparseable text and
\* one with a date has been committed: the two ids hold the last two
C31_Witness ==
    /\ UpsertDone /\ Len(rec.rows) = 3
    /\ "start_date" \notin DOMAIN rec.rows[1]
    /\ get(rec.rows[2], "start_date") = "not a date"
    /\ get(rec.rows[3], "start_date") \in IsoStamps
    /\ rec.rows[2].id # rec.rows[3].id
    /\ \E x, y \in tbl[rec.p] :
           /\ x.raw = rec.rows[2] /\ x.start_date = Null
           /\ y.raw = rec.rows[3] /\ y.start_date # Null

----------------------------------------------------------------------------
(* Properties of a sync that follows an interrupted one                    *)

\* the sync in flight ran to its end without any failure
RanWhole == job.pc = "done" /\ job.cut = "none" /\ job.errors = 0

\* the table one uninterrupted sync of the provider data, run on the table
\* as it was before the first sync, leaves at time t
Uninterrupted(t) ==
    WrittenPrefix(job.p, job.start, Flatten(job.data),
                  Len(Flatten(job.data)), t)

\* C32: however the first sync ended (whole, with failed projects, at a
\* failed refresh, fetch or upsert, or killed at any step), when the sync
\* that follows it over the same provider data runs to its end without a
\* failure, the table holds exactly the rows one uninterrupted sync run at
\* that time on the original table would have left.
C32_LaterSyncGivesUninterruptedRows ==
    (job.phase = 2 /\ RanWhole) => tbl[job.p] = Uninterrupted(job.t)

\* the first sync stopped early after committing some rows, and the sync that
\* followed it at a later time ran to its end and wrote more
C32_Witness ==
    /\ job.phase = 2 /\ RanWhole
    /\ job.first \notin {"none", "whole"}
    /\ job.mid # job.start
    /\ IdsOf(job.mid) # IdsOf(tbl[job.p])
    /\ \E x \in job.mid : x.last_synced_at < job.t

\* the permutations of 1..n
Perms(n) ==
    {f \in [1..n -> 1..n] : \A i, j \in 1..n : f[i] = f[j] => i = j}

\* the records of rows in the order f
Permuted(rows, f) == [i \in 1..Len(rows) |-> rows[f[i]]]

\* the records one sync fetched, in the order it upserted them
Fetched == Flatten(job.data)

\* upserting the fetched records in any order leaves the columns the sync
\* left
AnyOrderSameContent ==
    \A f \in Perms(Len(Fetched)) :
        Content(WrittenPrefix(job.p, job.start, Permuted(Fetched, f),
                              Len(Fetched), job.t))
            = Content(tbl[job.p])

\* no two of the records carry one id with different fields
Unambiguous(rows) ==
    \A i, j \in 1..Len(rows) :
        rows[i].id = rows[j].id => rows[i] = rows[j]

\* C33 as stated: after a sync that ran to its end, upserting the fetched
\* records in any other order would have left the same columns.
C33_AnyOrderSameRows ==
    RanWhole => AnyOrderSameContent

\* C33: after a sync that ran to its end, upserting the fetched records in
\* any other order would have left the same columns, provided no id was
\* fetched twice with different fields; an id fetched twice with different
\* fields keeps the fields of the record upserted last.
C33_AnyOrderSameRowsUnlessIdRepeats ==
    /\ (RanWhole /\ Unambiguous(Fetched)) => AnyOrderSameContent
    /\ RanWhole =>
           \A i \in 1..Len(Fetched) :
               LastOfItsId(Fetched, i) =>
                   \A x \in RowsOf(tbl[job.p], Fetched[i].id) :
                       x.raw = Fetched[i]

\* a sync ran to its end over three or more records of two ids, one id
\* fetched twice with the same fields, from two pages or projects
C33_Witness ==
    /\ RanWhole /\ Len(job.data) = 2
    /\ Len(Fetched) >= 3 /\ Unambiguous(Fetched)
    /\ \E i, j \in 1..Len(Fetched) : Fetched[i].id # Fetched[j].id
    /\ \E r \in NamedRecords :
           \E i \in 1..Len(job.data[1]) : \E j \in 1..Len(job.data[2]) :
               job.data[1][i] = r /\ job.data[2][j] = r

----------------------------------------------------------------------------
(* Properties of the project loop of sync_ticktick                         *)

\* the step is the failure of one project: its fetch raised, or its upsert
\* raised at a record or at the commit
ProjectFailure ==
    /\ job.p = "ticktick"
    /\ \/ /\ job.pc = "project" /\ job.i <= Len(job.data)
          /\ job' = ProjectFetchFailed(job)
       \/ /\ job.pc \in {"exec", "commit"}
          /\ job' = WriteFailed(job)

\* C37: in sync_ticktick the failure of one project's fetch or upsert adds
\* one entry to errors and the loop goes on with the next project, leaving
\* the table as the earlier projects committed it; the loop ends only after
\* the last project, and inside one sync a row is changed by nothing but a
\* commit, which removes no id.
C37_ProjectFailureIsIsolated ==
    [][/\ ProjectFailure =>
              /\ job'.errors = job.errors + 1
              /\ job'.pc = "project" /\ job'.i = job.i + 1
              /\ job'.cut = "none"
              /\ tbl' = tbl
       /\ (job.p = "ticktick" /\ job.pc = "project" /\ job'.pc = "done"
             /\ job'.cut = "none") =>
              job.i = Len(job.data) + 1
       /\ (job.p = "ticktick" /\ job'.phase = job.phase) =>
              \/ tbl' = tbl
              \/ /\ job.pc = "commit"
                 /\ IdsOf(tbl[job.p]) \subseteq IdsOf(tbl'[job.p])
      ]_vars

\* a sync of two projects has ended: the first project failed, the second
\* was fetched and its tasks are committed
C37_Witness ==
    /\ job.p = "ticktick" /\ job.phase = 1
    /\ job.pc = "done" /\ job.cut = "none"
    /\ Len(job.data) = 2 /\ job.errors = 1
    /\ job.data[1] # <<>> /\ job.data[2] # <<>>
    /\ job.start = {}
    /\ \E r \in NamedRecords :
           \E k \in 1..Len(job.data[1]) :
               job.data[1][k] = r /\ r.id \notin IdsOf(tbl[job.p])
    /\ \A k \in 1..Len(job.data[2]) :
           job.data[2][k].id \in IdsOf(tbl[job.p])

\* the positions of a periodic run in progress
RunPcs == {"rt", "post", "save", "fetch", "upsert"}

\* the periodic task sleeps after a run, and the model lets one more begin
PeriodicSleeping ==
    Serving /\ web.w["periodic"].pc = "sleep" /\ web.runs < MaxRuns

\* C38: every periodic run, ended by return or by exception, is followed by
\* the sleep of the loop; the sleep lasts the configured interval, at least
\* one minute; and when it is over the next run begins.
C38_PeriodicLoopSurvivesFailure ==
    /\ [][/\ (web.w["periodic"].pc \in RunPcs
                /\ web'.w["periodic"].pc \notin RunPcs) =>
                 (web'.w["periodic"].pc = "sleep" /\ web'.timer = 0)
          /\ (web.w["periodic"].pc = "sleep"
                /\ web'.w["periodic"].pc # "sleep") =>
                 /\ web'.w["periodic"].pc = "rt"
                 /\ web.minutes >= 1 /\ web.timer = web.minutes
         ]_vars
    /\ PeriodicSleeping ~> (web.w["periodic"].pc = "rt")

\* a second periodic run is in progress after one that ended by an
\* exception and a sleep of the whole interval
C38_Witness ==
    /\ web.failed /\ web.runs = 2
    /\ web.w["periodic"].pc \in RunPcs
    /\ web.minutes >= 1

====
